---------------------------- MODULE MCChatTurns ----------------------------
(* Small instances of ChatTurns for TLC. *)
EXTENDS ChatTurnsPromise, TLC

CONSTANTS t1, t2, c1, c2, p1, u1, s1, s2, s3, w1, w2

SingleTurn == t1 :> c1
SingleUser == t1 :> u1
SingleSlot == s1 :> w1
\* Two requests in one conversation.
OneConversation == (t1 :> c1) @@ (t2 :> c1)
OneProject == (c1 :> p1) @@ (c2 :> p1)
OneUser == (t1 :> u1) @@ (t2 :> u1)
\* Two slots, in a process each or in one, and a third in another process.
TwoProcesses == (s1 :> w1) @@ (s2 :> w2)
OneProcess == (s1 :> w1) @@ (s2 :> w1)
ThreeSlots == OneProcess @@ (s3 :> w2)

=============================================================================
