--------------------------- MODULE MCEpisodePlans ---------------------------
(***************************************************************************)
(* A Dropout season of two episodes, of which the first may be put in the  *)
(* other season, on the slot of the second, skipped, or mapped twice, and  *)
(* a playlist of two videos.                                               *)
(***************************************************************************)
EXTENDS EpisodePlans

Remap(e, slot) == [ep |-> e, to |-> slot]
MCRemapLists == {
    <<>>, <<Remap(1, <<2, 1>>)>>, <<Remap(1, <<1, 2>>)>>, <<Remap(1, Skip)>>,
    <<Remap(1, <<2, 1>>), Remap(1, <<1, 1>>)>>}

MCShows ==
    {[kind |-> "dropout", season |-> 1, remap |-> rs, only |-> es] :
         rs \in MCRemapLists, es \in {{}, {2}}}
    \cup {[kind |-> "youtube", season |-> n, skip |-> {}] : n \in {1, None}}
=============================================================================
