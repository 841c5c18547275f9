---------------------------- MODULE SeriesFiles ----------------------------
(***************************************************************************)
(* The shows' configuration files: a root file per platform (youtube.yaml, *)
(* dropout.yaml) with inline shows and a list of imported child files, and *)
(* the requests of series.py and manifests.py that edit them.              *)
(*                                                                         *)
(* A request is admitted while no job runs, takes the manifest lock, finds *)
(* its show and later writes the file.  The user's own editor, which takes *)
(* no lock, may come between; so may a crash between the two files that a  *)
(* creation or a deletion writes, and so may a refresh that GET /api/queue *)
(* starts, which asks for no lock.  A refresh reads a show, asks the       *)
(* provider and proposes its seasons; the server compares and swaps.       *)
(*                                                                         *)
(* A file is the sequence of its shows; a child file without a show is no  *)
(* file.  The cached view that every edit replans is CatalogViews.         *)
(***************************************************************************)
EXTENDS Naturals, Sequences, FiniteSets, SequencesExt

CONSTANTS
    Names,          \* display names, which are compared without letter case
    Paths,          \* library folders, alike
    Urls,           \* of playlists and of Dropout shows
    Lower,          \* the lower case of a word
    Stems,          \* the names of child files: a word and the numbers that follow it
    SlugOf,         \* slugify
    Invalid,        \* names validate_series_name refuses
    Dirs,           \* values of a platform's library setting
    FirstFiles,     \* the root and child files the user may start with
    MaxEdits,       \* bound: accepted requests, and edits with the user's editor
    MaxHands,       \* bound: the latter
    MaxFaults       \* bound: crashes

VARIABLES
    root,       \* the root file of each platform
    child,      \* the child files
    op,         \* the request that holds the manifest lock
    refresh,    \* the refresh of a Dropout show
    seen,       \* the details a browser shows
    \* history
    meddled,    \* the user's editor saved a file since the last request found its show
    odd,        \* child files that the user, a crash or a raw edit left out of step
    edits, hands, faults

vars == <<root, child, op, refresh, seen, meddled, odd, edits, hands, faults>>
files == <<root, child>>
history == <<meddled, odd, edits, hands, faults>>

Platforms == {"youtube", "dropout"}
Inline == <<>>              \* the file of an inline show
NoDir == "no directory"     \* the library setting is absent

\* A playlist has all its videos; a Dropout source lists some seasons or none,
\* and may take only some episodes of them.
Source == [url : Urls, seasons : {"all", "only", "none"}]
Show == [kind : Platforms, name : Names, path : Paths, sources : Seq(Source)]
Root == [imports : Seq(Stems), inline : Seq(Show), library : Dirs \cup {NoDir}]
\* A slug has the form of a stem: foo-2 is <<"foo", <<2>>>>.
Folded(slug) == <<Lower[slug[1]], slug[2]>>
Numbered(slug, n) == <<slug[1], Append(slug[2], n)>>
Loc == [file : Stems \cup {Inline}, index : Nat \ {0}]

ASSUME FilesAssumption ==
    /\ Lower \in [DOMAIN Lower -> DOMAIN Lower] /\ Stems \subseteq (DOMAIN Lower) \X Seq(Nat)
    /\ SlugOf \in [Names -> Stems] /\ \A n \in Names : Folded(SlugOf[n]) = SlugOf[n]
    /\ Invalid \subseteq Names
    /\ Inline \notin Stems /\ NoDir \notin Dirs /\ Paths # {}
    /\ FirstFiles \subseteq [root : [Platforms -> Root], child : [Stems -> Seq(Show)]]
    /\ MaxEdits \in Nat /\ MaxHands \in Nat /\ MaxFaults \in Nat

\* at: what is to be written next; l, old: the show found, and where; new: what
\* replaces it; asked: the source the browser wanted deleted.
NoSource == <<>>
Op == [at : {"put", "drop", "append", "unlist"}, p : Platforms, l : Loc,
       old : Show, new : Show, asked : Seq(Source)]
Idle == [at |-> "idle"]

(***************************************************************************)
(* Reading the files.                                                      *)
(***************************************************************************)
\* A child file that the other platform wrote has none of this one's sources.
ReadAs(p, s) == IF s.kind = p THEN s ELSE [s EXCEPT !.kind = p, !.sources = <<>>]

PlaylistsValid(s) ==
    \A i, j \in 1..Len(s.sources) : s.sources[i].url = s.sources[j].url => i = j

\* One source is written as url and seasons, more as a list whose items need some.
SourcesValid(s) ==
    Len(s.sources) # 1 => \A i \in 1..Len(s.sources) : s.sources[i].seasons # "none"

Valid(p, s) ==
    /\ s.name \notin Invalid
    /\ IF p = "youtube" THEN PlaylistsValid(ReadAs(p, s)) ELSE SourcesValid(ReadAs(p, s))

Raw(p, f) == IF f = Inline THEN root[p].inline ELSE child[f]

\* The elements of ss at the positions K, in their order.
Position(K, n) == CHOOSE i \in K : Cardinality({j \in K : j <= i}) = n
Subsequence(ss, K) == [n \in 1..Cardinality(K) |-> ss[Position(K, n)]]
Delisted(is, f) == Subsequence(is, {i \in 1..Len(is) : is[i] # f})

\* An invalid show makes its file unreadable: none of its shows is listed.
Readable(p, ss) == ss # <<>> /\ \A i \in 1..Len(ss) : Valid(p, ss[i])

Imports(p) == {root[p].imports[i] : i \in 1..Len(root[p].imports)}

\* A child file is imported, and by one platform, if it is there.
Importers(f) == {p \in Platforms : f \in Imports(p)}
InStep(f) == IF child[f] = <<>> THEN Importers(f) = {}
             ELSE \E p \in Platforms : Importers(f) = {p}

Locs(p, f) == IF Readable(p, Raw(p, f))
              THEN [i \in 1..Len(Raw(p, f)) |-> [file |-> f, index |-> i]] ELSE <<>>
\* Imported files in their order, then the inline shows.
DropoutEntries == FlattenSeq([i \in 1..Len(root["dropout"].imports) |->
                                  Locs("dropout", root["dropout"].imports[i])])
                  \o Locs("dropout", Inline)
YoutubeEntries == FlattenSeq([i \in 1..Len(root["youtube"].imports) |->
                                  Locs("youtube", root["youtube"].imports[i])])
                  \o Locs("youtube", Inline)
Entries(p) == IF p = "dropout" THEN DropoutEntries ELSE YoutubeEntries

\* The members of Entries(p).
Listed(p) == UNION {ToSet(Locs(p, f)) : f \in Imports(p) \cup {Inline}}

ShowAt(p, l) == ReadAs(p, Raw(p, l.file)[l.index])

\* Mutant: the slug of the name, used or not.
UniqueSlugUsed(base, used) == base

\* unique_slug: with the first number from 2 that makes it unused, if it is used.
UniqueSlug(base, used) ==
    IF base \notin used THEN base
    ELSE Numbered(base, Min({n \in 2..(Cardinality(used) + 2) : Numbered(base, n) \notin used}))

\* A show alone in its file has the file's name as its slug, capitals and all.
AssignSlug(p, l, used) ==
    IF l.file # Inline /\ Len(Raw(p, l.file)) = 1 /\ l.file \notin used
    THEN l.file ELSE UniqueSlug(SlugOf[ShowAt(p, l).name], used)

\* The slugs given out so far, and one for the show at l.
GiveSlug(p, slugs, l) ==
    [k \in DOMAIN slugs \cup {l} |-> IF k \in DOMAIN slugs THEN slugs[k]
                                    ELSE AssignSlug(p, l, Range(slugs))]

Slugs(p) == FoldLeft(LAMBDA slugs, l : GiveSlug(p, slugs, l), <<>>, Entries(p))

Imported(ls) == {l \in ls : l.file # Inline}
Preferred(ls) == IF Imported(ls) # {} THEN Imported(ls) ELSE ls

\* _find_locator compares without letter case; an imported show wins over an inline
\* one; two are ambiguous.
Found(slugs, slug) == Preferred({l \in DOMAIN slugs : Folded(slugs[l]) = Folded(slug)})

\* locate_series: a slug nobody has any more may still be a name's.
Located(p, slugs, slug) ==
    IF Found(slugs, slug) # {} THEN Found(slugs, slug)
    ELSE Preferred({l \in DOMAIN slugs :
                        Folded(slug) \in {Folded(slugs[l]), SlugOf[ShowAt(p, l).name]}})

\* The shows that a slug of a list just fetched reaches.  (One that reaches another
\* show than its own differs from that show's in letter case only.)
Reached(p) == LET slugs == Slugs(p) IN {l \in Listed(p) : Found(slugs, slugs[l]) = {l}}

AllNames == UNION {{ShowAt(p, l).name : l \in Listed(p)} : p \in Platforms}
PathsOf(p) == {ShowAt(p, l).path : l \in Listed(p)}

(***************************************************************************)
(* Requests.  Every one but a detail or a list holds the manifest lock and *)
(* is refused while a job runs; a refresh may start while it is under way. *)
(***************************************************************************)
NoRefresh == [at |-> "none"]
Unseen == [slug |-> <<>>]

\* A write of a file that the refresh under way may have read.
Counted(r) == IF r = NoRefresh \/ files' = files THEN r ELSE [r EXCEPT !.changes = @ + 1]

Init ==
    /\ \E f \in FirstFiles : root = f.root /\ child = f.child
    /\ op = Idle /\ refresh = NoRefresh /\ seen = Unseen
    /\ meddled = FALSE
    /\ odd = {f \in Stems : ~InStep(f)}
    /\ edits = 0 /\ hands = 0 /\ faults = 0

Maintenance == op = Idle /\ refresh = NoRefresh

Accepted == Maintenance /\ edits < MaxEdits /\ edits' = edits + 1

Begin(at, p, l, new, asked) ==
    /\ op' = [at |-> at, p |-> p, l |-> l, old |-> ShowAt(p, l), new |-> new, asked |-> asked]
    /\ meddled' = FALSE
    /\ UNCHANGED <<files, refresh, seen, odd, hands, faults>>

\* Mutant: only the folder is compared.
ConflictsFolder(p, old, new) == new.path # old.path /\ new.path \in PathsOf(p) \ {old.path}

\* The names of all shows of both platforms, the folders of this one.
Conflicts(p, old, new) ==
    \/ new.name # old.name /\ new.name \in AllNames \ {old.name}
    \/ new.path # old.path /\ new.path \in PathsOf(p) \ {old.path}

\* Sources are compared by their position.
LosesFilter(p, old, new) ==
    /\ p = "dropout"
    /\ \E i \in 1..Len(old.sources) \cap 1..Len(new.sources) :
           old.sources[i].seasons = "only" /\ new.sources[i].seasons # "only"

\* GET of a show's detail, by the slug the list gave it; the bound leaves out those
\* that no request follows.
Get ==
    /\ edits < MaxEdits
    /\ \E p \in Platforms : \E l \in Reached(p) :
           seen' = [slug |-> Slugs(p)[l], p |-> p, show |-> ShowAt(p, l)]
    /\ UNCHANGED <<files, op, refresh, history>>

\* Discovery: the playlists of a channel, or the one given; a Dropout show with
\* its seasons.
Discovered(p) == LET whole(u) == [url |-> u, seasons |-> "all"]
                 IN  {<<whole(u)>> : u \in Urls}
                     \cup (IF p = "youtube" THEN {<<whole(u), whole(v)>> : u, v \in Urls} ELSE {})

AddSource ==
    /\ Accepted
    /\ \E p \in Platforms : \E l \in Reached(p), new \in Discovered(p) :
           Begin("put", p, l, [ShowAt(p, l) EXCEPT !.sources = @ \o new], NoSource)

Without(ss, i) == SubSeq(ss, 1, i - 1) \o SubSeq(ss, i + 1, Len(ss))

\* The browser names the source by its position in the detail it shows.
DeleteSource ==
    /\ Accepted /\ seen # Unseen
    /\ \E l \in Listed(seen.p), i \in 1..Len(seen.show.sources) :
        /\ Found(Slugs(seen.p), seen.slug) = {l}
        /\ i <= Len(ShowAt(seen.p, l).sources)
        /\ Begin("put", seen.p, l, [ShowAt(seen.p, l) EXCEPT !.sources = Without(@, i)],
                 <<seen.show.sources[i]>>)

\* A playlist without its season is left out; only Dropout seasons have a filter.
FromDetail(p, s) ==
    IF p = "dropout" THEN s
    ELSE LET kept == Subsequence(s.sources,
                                 {i \in 1..Len(s.sources) : s.sources[i].seasons # "none"})
         IN  [s EXCEPT !.sources = [i \in 1..Len(kept) |-> [kept[i] EXCEPT !.seasons = "all"]]]

\* One field of the detail changed.
Changed(s) ==
    {[s EXCEPT !.name = n] : n \in Names}
    \cup {[s EXCEPT !.path = f] : f \in Paths}
    \cup {[s EXCEPT !.sources[i].seasons = v] : i \in 1..Len(s.sources),
                                                v \in {"all", "only", "none"}}
    \cup {[s EXCEPT !.sources = Without(@, i)] : i \in 1..Len(s.sources)}

Replace(p, l, new) ==
    /\ ~LosesFilter(p, ShowAt(p, l), new)
    /\ ~Conflicts(p, ShowAt(p, l), new)
    /\ Begin("put", p, l, new, NoSource)

\* The whole detail the browser shows, with a change.
PutSeries ==
    /\ Accepted /\ seen # Unseen
    /\ \E l \in Listed(seen.p), body \in Changed(seen.show) :
        /\ Found(Slugs(seen.p), seen.slug) = {l}
        /\ Replace(seen.p, l, FromDetail(seen.p, body))

\* The show's YAML text, which is parsed before anything is written.
PutSeriesYaml ==
    /\ Accepted
    /\ \E p \in Platforms : \E l \in Reached(p) : \E new \in Changed(ShowAt(p, l)) :
           Valid(p, new) /\ Replace(p, l, new)

WriteFile(p, f, ss) ==
    IF f = Inline THEN root' = [root EXCEPT ![p].inline = ss] /\ UNCHANGED child
                  ELSE child' = [child EXCEPT ![f] = ss] /\ UNCHANGED root

\* The file as it is now is read again: if the show's position is gone, or the
\* file is unreadable, the request fails.
Rereads(p, l) == Readable(p, Raw(p, l.file)) /\ l.index <= Len(Raw(p, l.file))

\* All shows of the file are written in the platform's form.
WithShow(p, ss, i, new) == [j \in 1..Len(ss) |-> IF j = i THEN new ELSE ReadAs(p, ss[j])]

Save ==
    /\ op.at = "put"
    /\ IF Rereads(op.p, op.l)
       THEN WriteFile(op.p, op.l.file,
                      WithShow(op.p, Raw(op.p, op.l.file), op.l.index, op.new))
       ELSE UNCHANGED files
    /\ op' = Idle
    /\ refresh' = Counted(refresh)
    /\ UNCHANGED <<seen, history>>

\* Deletion of a show: the last one of a child file takes the file and then its
\* import away.
DeleteSeries ==
    /\ Accepted
    /\ \E p \in Platforms : \E l \in Reached(p) :
           Begin("drop", p, l, ShowAt(p, l), NoSource)

\* Mutant: the import of a file taken away stays.
DropKeepsImport ==
    /\ op.at = "drop"
    /\ LET ss == Raw(op.p, op.l.file)
           rest == Without([j \in 1..Len(ss) |-> ReadAs(op.p, ss[j])], op.l.index)
       IN  IF Rereads(op.p, op.l)
           THEN /\ WriteFile(op.p, op.l.file, rest)
                /\ op' = Idle
           ELSE op' = Idle /\ UNCHANGED files
    /\ refresh' = Counted(refresh)
    /\ UNCHANGED <<seen, history>>

Drop ==
    /\ op.at = "drop"
    /\ LET ss == Raw(op.p, op.l.file)
           rest == Without([j \in 1..Len(ss) |-> ReadAs(op.p, ss[j])], op.l.index)
       IN  IF Rereads(op.p, op.l)
           THEN /\ WriteFile(op.p, op.l.file, rest)
                /\ op' = IF op.l.file = Inline \/ rest # <<>> THEN Idle
                         ELSE [op EXCEPT !.at = "unlist"]
           ELSE op' = Idle /\ UNCHANGED files
    /\ refresh' = Counted(refresh)
    /\ UNCHANGED <<seen, history>>

Unlist ==
    /\ op.at = "unlist"
    /\ root' = [root EXCEPT ![op.p].imports = Delisted(@, op.l.file)]
    /\ op' = Idle
    /\ UNCHANGED child /\ refresh' = Counted(refresh)
    /\ UNCHANGED <<seen, history>>

\* Mutant: the folder is the name, whatever was asked.
CreateSeriesByName ==
    /\ Accepted
    /\ \E p \in Platforms, n \in Names, f \in Paths :
        LET new == [kind |-> p, name |-> n, path |-> n, sources |-> <<>>]
        IN  /\ n \notin AllNames /\ f \notin PathsOf(p)
            /\ child[SlugOf[n]] = <<>>
            /\ child' = [child EXCEPT ![SlugOf[n]] = <<new>>]
            /\ op' = [at |-> "append", p |-> p, l |-> [file |-> SlugOf[n], index |-> 1],
                      old |-> new, new |-> new, asked |-> NoSource]
    /\ meddled' = FALSE
    /\ UNCHANGED <<root, refresh, seen, odd, hands, faults>>

\* Creation writes the child file, and then its import.
CreateSeries ==
    /\ Accepted
    /\ \E p \in Platforms, n \in Names, f \in Paths :
        LET new == [kind |-> p, name |-> n, path |-> f, sources |-> <<>>]
        IN  /\ n \notin AllNames /\ f \notin PathsOf(p)
            /\ child[SlugOf[n]] = <<>>
            /\ child' = [child EXCEPT ![SlugOf[n]] = <<new>>]
            /\ op' = [at |-> "append", p |-> p, l |-> [file |-> SlugOf[n], index |-> 1],
                      old |-> new, new |-> new, asked |-> NoSource]
    /\ meddled' = FALSE
    /\ UNCHANGED <<root, refresh, seen, odd, hands, faults>>

AppendImport ==
    /\ op.at = "append"
    /\ root' = IF op.l.file \in Imports(op.p) THEN root
               ELSE [root EXCEPT ![op.p].imports = Append(@, op.l.file)]
    /\ op' = Idle
    /\ UNCHANGED child /\ refresh' = Counted(refresh)
    /\ UNCHANGED <<seen, history>>

\* A save merges its keys into the file: a cleared setting is no key.
PutPlatform ==
    /\ Accepted
    /\ \E p \in Platforms, d \in Dirs \cup {NoDir} :
           root' = IF d = NoDir THEN root ELSE [root EXCEPT ![p].library = d]
    /\ UNCHANGED <<child, op, refresh, seen, meddled, odd, hands, faults>>

(***************************************************************************)
(* Raw text: in the server's editor, or with the user's own, which takes   *)
(* no lock and is not validated.                                           *)
(***************************************************************************)
AnyPath == CHOOSE f \in Paths : TRUE

\* A show less, one without its sources, or one more, which may have any name.
Rewritten(p, ss) ==
    {Without(ss, i) : i \in 1..Len(ss)}
    \cup {[ss EXCEPT ![i].sources = <<>>] : i \in 1..Len(ss)}
    \cup {<<[kind |-> p, name |-> n, path |-> AnyPath, sources |-> <<>>]>> \o ss : n \in Names}

\* A root file with one import less or more, or other inline shows.
RootTexts(p) ==
    {[root[p] EXCEPT !.imports = Delisted(@, f)] : f \in Imports(p)}
    \cup {[root[p] EXCEPT !.imports = Append(@, f)] :
              f \in {f \in Stems \ Imports(p) : child[f] # <<>>}}
    \cup {[root[p] EXCEPT !.inline = ss] : ss \in Rewritten(p, root[p].inline)}

Relisted(p, text) == {f \in Stems : (f \in Imports(p)) # (\E i \in 1..Len(text.imports) :
                                                              text.imports[i] = f)}

\* Imports are not loaded to validate the root file.
PutManifest ==
    /\ Accepted
    /\ \E p \in Platforms : \E text \in RootTexts(p) :
        /\ text.imports # <<>> \/ text.inline # <<>>
        /\ \A i \in 1..Len(text.inline) : Valid(p, text.inline[i])
        /\ root' = [root EXCEPT ![p] = text]
        /\ odd' = odd \cup Relisted(p, text)
    /\ UNCHANGED <<child, op, refresh, seen, meddled, hands, faults>>

\* Mutant: the text of an import is written without the manifest lock.
PutImportUnlocked ==
    /\ edits < MaxEdits /\ edits' = edits + 1
    /\ \E p \in Platforms : \E f \in Imports(p) : \E ss \in Rewritten(p, child[f]) :
        /\ Readable(p, ss)
        /\ child' = [child EXCEPT ![f] = ss]
        /\ odd' = odd \cup {f}
    /\ UNCHANGED <<root, op, refresh, seen, meddled, hands, faults>>

PutImport ==
    /\ Accepted
    /\ \E p \in Platforms : \E f \in Imports(p) : \E ss \in Rewritten(p, child[f]) :
        /\ Readable(p, ss)
        /\ child' = [child EXCEPT ![f] = ss]
        /\ odd' = odd \cup {f}
    /\ UNCHANGED <<root, op, refresh, seen, meddled, hands, faults>>

HandEdit ==
    /\ edits < MaxEdits /\ edits' = edits + 1
    /\ hands < MaxHands /\ hands' = hands + 1
    /\ \E p \in Platforms :
        \/ \E text \in RootTexts(p) :
            /\ root' = [root EXCEPT ![p] = text]
            /\ odd' = odd \cup Relisted(p, text)
            /\ UNCHANGED child
        \/ \E f \in Imports(p) : \E ss \in Rewritten(p, child[f]) :
            /\ child' = [child EXCEPT ![f] = ss]
            /\ odd' = odd \cup {f}
            /\ UNCHANGED root
    /\ meddled' = (op # Idle) /\ refresh' = Counted(refresh)
    /\ UNCHANGED <<op, seen, faults>>

(***************************************************************************)
(* A refresh of a Dropout show.  Its worker reads the show, then its       *)
(* revision, asks the provider, and hashes the file; the server checks the *)
(* revision and then, in apply_refresh_updates, the hash and the name.  It *)
(* takes no manifest lock: the job is what keeps new requests out.         *)
(***************************************************************************)
Revision(l) == [l |-> l, show |-> ShowAt("dropout", l), imports |-> root["dropout"].imports,
                library |-> root["dropout"].library]
Content(f) == IF f = Inline THEN <<root["dropout"], <<>>>> ELSE <<<<>>, child[f]>>

\* Its slug comes from a list.  POST /api/jobs starts it under the manifest lock,
\* GET /api/queue whatever request holds that.
RefreshStart ==
    /\ refresh = NoRefresh
    /\ \E l \in Reached("dropout") :
           refresh' = [at |-> "located", slug |-> Slugs("dropout")[l], l |-> l,
                       old |-> ShowAt("dropout", l), revision |-> NoSource,
                       new |-> ShowAt("dropout", l), content |-> NoSource, changes |-> 0]
    /\ UNCHANGED <<files, op, seen, history>>

Current == {l \in Listed("dropout") : Located("dropout", Slugs("dropout"), refresh.slug) = {l}}

RefreshRevise ==
    /\ refresh.at = "located"
    /\ \/ \E l \in Current :
              refresh' = [refresh EXCEPT !.at = "asking", !.revision = Revision(l)]
       \/ refresh' = NoRefresh     \* no such show, or the page expected another revision
    /\ UNCHANGED <<files, op, seen, history>>

\* merge_dropout_seasons: what is configured stays, and what is found is added.
Merged(s) ==
    {[s EXCEPT !.sources = [i \in 1..Len(@) |->
          IF i \in asked /\ @[i].seasons = "none" THEN [@[i] EXCEPT !.seasons = "all"] ELSE @[i]]] :
     asked \in SUBSET (1..Len(s.sources))}

RefreshPropose ==
    /\ refresh.at = "asking"
    /\ \/ \E new \in Merged(refresh.old) \ {refresh.old} :
              refresh' = [refresh EXCEPT !.at = "proposed", !.new = new,
                                         !.content = Content(refresh.l.file)]
       \/ refresh' = NoRefresh     \* nothing new, or the worker failed
    /\ UNCHANGED <<files, op, seen, history>>

\* Mutant: the show is still there, but its revision is not compared.
RefreshCheckSlug ==
    /\ refresh.at = "proposed"
    /\ refresh' = IF Current # {} THEN [refresh EXCEPT !.at = "checked"] ELSE NoRefresh
    /\ UNCHANGED <<files, op, seen, history>>

\* _publish_refresh_result.
RefreshCheck ==
    /\ refresh.at = "proposed"
    /\ refresh' = IF \E l \in Current : Revision(l) = refresh.revision
                  THEN [refresh EXCEPT !.at = "checked"] ELSE NoRefresh
    /\ UNCHANGED <<files, op, seen, history>>

Swappable ==
    /\ Content(refresh.l.file) = refresh.content
    /\ Rereads("dropout", refresh.l)
    /\ ShowAt("dropout", refresh.l).name = refresh.new.name
    /\ Valid("dropout", refresh.new)

RefreshApply ==
    /\ refresh.at = "checked"
    /\ IF Swappable
       THEN WriteFile("dropout", refresh.l.file,
                      [Raw("dropout", refresh.l.file) EXCEPT ![refresh.l.index] = refresh.new])
       ELSE UNCHANGED files
    /\ refresh' = NoRefresh
    /\ UNCHANGED <<op, seen, history>>

\* The server stops: what a request has not written is not written.
Crash ==
    /\ faults < MaxFaults /\ ~Maintenance
    /\ op' = Idle /\ refresh' = NoRefresh
    /\ odd' = IF op.at \in {"append", "unlist"} THEN odd \cup {op.l.file} ELSE odd
    /\ faults' = faults + 1
    /\ UNCHANGED <<files, seen, meddled, edits, hands>>

Next ==
    \/ Get \/ AddSource \/ DeleteSource \/ PutSeries \/ PutSeriesYaml \/ Save
    \/ DeleteSeries \/ Drop \/ Unlist \/ CreateSeries \/ AppendImport \/ PutPlatform
    \/ PutManifest \/ PutImport \/ HandEdit
    \/ RefreshStart \/ RefreshRevise \/ RefreshPropose \/ RefreshCheck \/ RefreshApply \/ Crash

Spec == Init /\ [][Next]_vars

(***************************************************************************)
(* Properties.                                                             *)
(***************************************************************************)
\* Every variable has its type, and the counters keep their bounds.
TypeOK ==
    /\ root \in [Platforms -> Root]
    /\ child \in [Stems -> Seq(Show)]
    /\ op \in Op \cup {Idle}
    /\ refresh = NoRefresh \/
           /\ DOMAIN refresh = {"at", "slug", "l", "old", "revision", "new", "content", "changes"}
           /\ refresh.at \in {"located", "asking", "proposed", "checked"}
           /\ refresh.l \in Loc /\ refresh.old \in Show /\ refresh.new \in Show
           /\ refresh.changes \in Nat
    /\ seen = Unseen \/ (seen.p \in Platforms /\ seen.show \in Show)
    /\ meddled \in BOOLEAN /\ odd \subseteq Stems
    /\ edits \in 0..MaxEdits /\ hands \in 0..MaxHands /\ faults \in 0..MaxFaults

\* A request found its show by its slug and will write by its position
\* (series.py, _save_locator_series): until it does, the position holds that
\* show, with no more changes than the seasons a refresh has found, whatever
\* requests, refreshes and crashes come, unless the user's own editor has been
\* there.
SaveHitsItsShow ==
    op.at \in {"put", "drop"} /\ ~meddled =>
        Rereads(op.p, op.l) /\ ShowAt(op.p, op.l) \in Merged(op.old)

\* create_series and delete_series write two files: a child file is imported, by
\* one platform, if and only if it is there, but for the one being written, and
\* those the user, a crash or a raw edit left out of step.
ImportsAgree ==
    \A f \in Stems \ odd :
        InStep(f) \/ (op.at \in {"append", "unlist"} /\ op.l.file = f)

\* Slugs are given out anew at every read (_assign_slug, unique_slug), and kept
\* apart by their letters' case, which _find_locator does not look at: a listed
\* show that its own slug does not find, because it is ambiguous or reaches
\* another show, shares it, but for letter case, with a show alone in a file whose
\* name has capitals.
SlugFinds ==
    \A p \in Platforms : \A l \in Listed(p) \ Reached(p) :
        \E k \in Listed(p) :
            /\ Slugs(p)[k] = k.file /\ Folded(k.file) # k.file
            /\ Folded(k.file) = Folded(Slugs(p)[l])

DistinctNames ==
    \A p, q \in Platforms : \A k \in Listed(p), l \in Listed(q) :
        ShowAt(p, k).name = ShowAt(q, l).name => p = q /\ k = l

\* No request and no refresh gives a listed show the name of another, on either
\* platform, though the check and the write are steps apart (create_series,
\* _check_rename_conflicts, apply_refresh_updates); but for a child file left out
\* of step.
NamesStayDistinct ==
    [][ \/ /\ op # Idle \/ op' # Idle
           /\ ~meddled' /\ (IF op = Idle THEN op' ELSE op).l.file \notin odd
        \/ refresh.at = "checked" /\ refresh' = NoRefresh /\ refresh.l.file \notin odd
        => (DistinctNames => DistinctNames') ]_vars

\* apply_refresh_updates: a refresh writes over the very show its worker read,
\* if it read the revision of that show: what the user's own editor or a request
\* did to it in the meantime, in one write or two and at any moment, is not lost.
\* (A third may be: one that brings back what the second took back.)
RefreshLosesNothing ==
    [][ /\ refresh.at = "checked" /\ refresh' = NoRefresh /\ files' # files
        /\ refresh.revision.l = refresh.l /\ refresh.revision.show = refresh.old
        /\ refresh.changes <= 2
        => ShowAt("dropout", refresh.l) = refresh.old ]_vars

\* app.py:585, manifest_maintenance: "Serialize canonical edits against active
\* jobs."  What a request is about to write over is what it has read.
SavesWhatItRead ==
    op.at = "put" /\ ~meddled => ShowAt(op.p, op.l) = op.old

\* docs/web-only-foundation.md:39: the configuration repository owns validation.
\* What a request saved can be read again.
SavedStaysReadable ==
    [][\A p \in Platforms, f \in Stems \cup {Inline} :
           op.at = "put" /\ op.p = p /\ op.l.file = f /\ ~meddled /\ files' # files
           => Readable(p, Raw(p, f))']_vars

\* docs/web-only-foundation.md:44: source positions require a configuration
\* revision.  The source deleted is the one the browser showed there.
DeletesWhatWasSeen ==
    op.at = "put" /\ op.asked # NoSource =>
        \E i \in 1..Len(op.old.sources) : /\ op.old.sources[i] = op.asked[1]
                                          /\ op.new.sources = Without(op.old.sources, i)
=============================================================================
