----------------------------- MODULE MCThreads -----------------------------
(* Values for TLC: black and white, between which a colour is torn. *)
EXTENDS Threads

CONSTANTS c1, c2, h1

MCCaller == {c1, c2}
MCHandler == {h1}
MCMaxKeys == [super_key_enable |-> 1, kbd_led |-> 1, adapter |-> 2]
MCColour == {<<0, 0>>, <<50, 50>>}
=============================================================================
