--------------------------- MODULE MCSeriesFiles ---------------------------
(***************************************************************************)
(* Two names have the same slug, and the second show of that slug gets the *)
(* third name's.  The user starts with a child file of two YouTube shows   *)
(* and an inline Dropout show, with two inline Dropout shows and a child   *)
(* file whose name is the slug of one of them in capitals, or with a child *)
(* file alone, whose show a refresh completes.                             *)
(***************************************************************************)
EXTENDS SeriesFiles, TLC

a == <<"a", <<>>>>
a2 == <<"a", <<2>>>>
Capital == <<"A", <<>>>>
pack == <<"pack", <<>>>>

MCLower == ("A" :> "a") @@ ("a" :> "a") @@ ("pack" :> "pack")
MCStems == {a, a2, Capital, pack}
MCSlugOf == ("A" :> a) @@ ("A!" :> a) @@ ("A 2" :> a2)

Playlist(u) == [url |-> u, seasons |-> "all"]
Season(v) == [url |-> "u", seasons |-> v]
MCShow(k, n, f, ss) == [kind |-> k, name |-> n, path |-> f, sources |-> ss]
MCRoot(is, ss) == [imports |-> is, inline |-> ss, library |-> NoDir]

Pack == <<MCShow("youtube", "A", "x", <<Playlist("u")>>), MCShow("youtube", "A!", "y", <<>>)>>
Solo == <<MCShow("dropout", "A 2", "x", <<Season("only")>>)>>
Lone == <<MCShow("dropout", "A 2", "x", <<Season("none")>>)>>
Pair == <<MCShow("dropout", "A", "x", <<Season("none")>>), MCShow("dropout", "A!", "y", <<>>)>>

MCFiles(youtube, dropout, children) ==
    [root |-> [p \in Platforms |-> IF p = "youtube" THEN youtube ELSE dropout],
     child |-> [f \in Stems |-> IF f \in DOMAIN children THEN children[f] ELSE <<>>]]

MCFirstFiles == {
    MCFiles(MCRoot(<<pack>>, <<>>), MCRoot(<<>>, Solo), pack :> Pack),
    MCFiles(MCRoot(<<>>, <<>>), MCRoot(<<Capital>>, Pair), Capital :> Solo),
    MCFiles(MCRoot(<<>>, <<>>), MCRoot(<<a2>>, <<>>), a2 :> Lone)}

\* A playlist that is there already, and a show of two playlists.
MCPlaylists == {
    MCFiles(MCRoot(<<>>, <<MCShow("youtube", "A", "x", <<Playlist("u"), Playlist("v")>>)>>),
            MCRoot(<<>>, <<>>), <<>>)}
=============================================================================
