------------------------ MODULE MCDurableDispatcher ------------------------
(* A small instance of DurableDispatcher: two updates of one chat and one  *)
(* of another.  One attempt is enough: a first failure then leaves a dead  *)
(* letter whose notice holds the chat, and paused updates are retried.     *)
EXTENDS DurableDispatcher, TLC

MCUpdate == 1 .. 3
MCChat == {"a", "b"}
MCChatOf == 1 :> "a" @@ 2 :> "a" @@ 3 :> "b"

=============================================================================
