-------------------------------- MODULE Channels --------------------------------
(***************************************************************************)
(* What a chat promises: two people, and between them one channel in each  *)
(* direction.  What one of them hears is, at every moment, a beginning of  *)
(* what the other has said since they were connected.                      *)
(***************************************************************************)
EXTENDS SequencesExt

Ends == {"client", "server"}
Other(e) == CHOOSE o \in Ends : o # e

VARIABLES said,   \* [Ends -> sequence]: what each has said in this conversation
          heard   \* [Ends -> sequence]: what each has heard

Nothing == [e \in Ends |-> <<>>]

Init == said = Nothing /\ heard = Nothing

Say(e) == /\ IsPrefix(said[e], said'[e])
          /\ said' = [said EXCEPT ![e] = said'[e]]
          /\ UNCHANGED heard

Hear(e) == /\ IsPrefix(heard[e], heard'[e])
           /\ IsPrefix(heard'[e], said[Other(e)])
           /\ heard' = [heard EXCEPT ![e] = heard'[e]]
           /\ UNCHANGED said

\* The server takes the next client.
Reconnect == said' = Nothing /\ heard' = Nothing

Next == Reconnect \/ \E e \in Ends : Say(e) \/ Hear(e)

Spec == Init /\ [][Next]_<<said, heard>>
=============================================================================
