--------------------------- MODULE MCGroupPipeline ---------------------------
(* A small instance of GroupPipeline: an album of two photos with a question  *)
(* to be answered between them.                                               *)
EXTENDS GroupPipeline, TLC

MCUpdate == 1 .. 3
MCChat == {"group"}
MCChatOf == [u \in MCUpdate |-> "group"]
MCAlbumOf == 1 :> "album" @@ 2 :> None @@ 3 :> "album"

=============================================================================
