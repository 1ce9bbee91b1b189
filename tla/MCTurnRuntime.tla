--------------------------- MODULE MCTurnRuntime ---------------------------
(* Small instances of TurnRuntime: two chats, so that two dispatches meet  *)
(* in the runtime's queue, one turn with tools and one without; and single *)
(* updates for the questions that concern one turn.                        *)
EXTENDS TurnRuntime, TLC

OneUpdate == {1}
OneChat == {"a"}
OneChatOf == 1 :> "a"
ImageEnvelopesOf == 1 :> {"e", "f"}
ThreeUpdates == 1 .. 3
TwoChats == {"a", "b"}
ThreeChatOf == 1 :> "a" @@ 2 :> "b" @@ 3 :> "b"
ThreeEnvelopesOf == 1 :> {"e"} @@ 2 :> {"e"} @@ 3 :> {}

=============================================================================
