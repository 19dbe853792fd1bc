------------------------------- MODULE Switch -------------------------------
(***************************************************************************)
(* What the driver promises about switches that the EC can only flip: a    *)
(* request sets its switch in one step, at some time before its caller     *)
(* returns, and nothing but requests and a switch's own key change it.     *)
(***************************************************************************)
EXTENDS Integers

CONSTANTS Caller, Switch, None

VARIABLES
  on,        \* whether each switch is on
  wish,      \* what each caller asks for and has not got yet: [of, to]
  keys       \* how often the key of each switch was pressed

switchVars == <<on, wish, keys>>

Wish == [of : Switch, to : BOOLEAN]

Init ==
  /\ on \in [Switch -> BOOLEAN]
  /\ wish = [t \in Caller |-> None]

Request(t) ==
  /\ wish[t] = None
  /\ \E w \in Wish : wish' = [wish EXCEPT ![t] = w]
  /\ UNCHANGED <<on, keys>>

Serve(t) ==
  /\ wish[t] # None
  /\ on' = [on EXCEPT ![wish[t].of] = wish[t].to]
  /\ wish' = [wish EXCEPT ![t] = None]
  /\ UNCHANGED keys

Press(s) ==
  /\ on' = [on EXCEPT ![s] = ~@]
  /\ keys' = [keys EXCEPT ![s] = @ + 1]
  /\ UNCHANGED wish

Next ==
  \/ \E t \in Caller : Request(t) \/ Serve(t)
  \/ \E s \in Switch : Press(s)

Spec == Init /\ [][Next]_switchVars
=============================================================================
