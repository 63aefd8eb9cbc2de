---------------------------- MODULE FeedDelivery ----------------------------
(***************************************************************************)
(* What the feed promises, with no connections, threads, files or crashes: *)
(* messages are written, each is made safe at the stratcond at some point  *)
(* and stays so, and the subscriber's read position only ever stands       *)
(* behind messages that are all safe.  The position may move backwards.    *)
(***************************************************************************)
EXTENDS Naturals

CONSTANT MaxMsg    \* bound: messages ever written

VARIABLES
    produced,      \* messages 1..produced have been written to the journal
    passed,        \* the subscriber will not be sent 1..passed again
    safe           \* messages the stratcond answers for

vars == <<produced, passed, safe>>

Init == produced = 0 /\ passed = 0 /\ safe = {}

\* The noitd writes a message.  One without a line is safe at once.
Write ==
    /\ produced < MaxMsg
    /\ produced' = produced + 1
    /\ safe' \in {safe, safe \cup {produced + 1}}
    /\ UNCHANGED passed

\* The stratcond makes messages safe.
Secure ==
    /\ \E S \in SUBSET (1 .. produced) : safe' = safe \cup S
    /\ UNCHANGED <<produced, passed>>

\* The subscriber's position moves to any place all of whose messages are safe.
Advance ==
    /\ \E k \in 0 .. produced : (1 .. k) \subseteq safe /\ passed' = k
    /\ UNCHANGED <<produced, safe>>

Next == Write \/ Secure \/ Advance

Spec == Init /\ [][Next]_vars
=============================================================================
