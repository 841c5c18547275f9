------------------------- MODULE EpisodePlans_proofs -------------------------
(***************************************************************************)
(* Theorems about EpisodePlans for any seasons, episodes, playlists, lists *)
(* of remaps and number of edits.                                          *)
(***************************************************************************)
EXTENDS EpisodePlans, Integers, FiniteSetTheorems, WellFoundedInduction, TLAPS

-----------------------------------------------------------------------------
(***************************************************************************)
(* The mappings.                                                           *)
(***************************************************************************)
(* In a plain configuration an episode has one remap at most.              *)
LEMMA OneRemap ==
  ASSUME NEW s \in DropoutShows, Plain(s), NEW e, RemapsOf(s, e) # {}
  PROVE  \E k \in 1..Len(s.remap) :
           /\ RemapsOf(s, e) = {k} /\ s.remap[k].ep = e
           /\ s.remap[k].to # Skip => Takes(s, e)
  <1>1. PICK k \in 1..Len(s.remap) : s.remap[k].ep = e BY DEF RemapsOf
  <1>2. s.kind = "dropout" BY DEF DropoutShows
  <1>3. \A i \in RemapsOf(s, e) : i = k BY <1>1, <1>2 DEF Plain, RemapsOf
  <1>4. RemapsOf(s, e) = {k} BY <1>1, <1>3 DEF RemapsOf
  <1> QED BY <1>1, <1>2, <1>4 DEF Plain

FirstRemap(s, e) == CHOOSE i \in RemapsOf(s, e) : \A j \in RemapsOf(s, e) : i <= j
LastRemap(s, e) == CHOOSE i \in RemapsOf(s, e) : \A j \in RemapsOf(s, e) : i >= j

LEMMA Singleton ==
  ASSUME NEW s \in DropoutShows, NEW e, NEW k \in 1..Len(s.remap), RemapsOf(s, e) = {k}
  PROVE  FirstRemap(s, e) = k /\ LastRemap(s, e) = k
  <1>1. k \in Nat BY DEF DropoutShows
  <1>2. FirstRemap(s, e) \in {k} /\ LastRemap(s, e) \in {k} BY <1>1 DEF FirstRemap, LastRemap
  <1> QED BY <1>2

(* The two directions of search find the same remap when there is one, and *)
(* then a refresh makes the row that replanning and the page expect.       *)
LEMMA ResolvePlain ==
  ASSUME NEW s \in DropoutShows, Plain(s), NEW e \in Episodes
  PROVE  /\ Resolve(s, e) \in Slots \cup {None, Skip}
         /\ DropoutRow(s, e) = [id |-> e, number |-> e, dest |-> SlotOf(Resolve(s, e)),
                               skipped |-> Resolve(s, e) = Skip \/ ~Takes(s, e)]
  <1> DEFINE last == s.remap[LastRemap(s, e)].to
             first == s.remap[FirstRemap(s, e)].to
             skip == last = Skip
             taken == ~Takes(s, e)
             out == Resolve(s, e) = Skip \/ ~Takes(s, e)
             mapped == [id |-> e, number |-> e, dest |-> SlotOf(last), skipped |-> skip]
             plain == [id |-> e, number |-> e, dest |-> Default(s, e), skipped |-> taken]
             row == [id |-> e, number |-> e, dest |-> SlotOf(Resolve(s, e)), skipped |-> out]
  <1>1. DropoutRow(s, e) = IF RemapsOf(s, e) # {} THEN mapped ELSE plain
    BY DEF DropoutRow, LastRemap
  <1>2. Resolve(s, e) = IF RemapsOf(s, e) = {} THEN Default(s, e) ELSE first
    BY DEF FirstRemap, Resolve
  <1> HIDE DEF mapped, plain, row
  <1>3. CASE RemapsOf(s, e) = {}
    <2>1. DropoutRow(s, e) = plain /\ Resolve(s, e) = Default(s, e) BY <1>1, <1>2, <1>3
    <2>2. s.season \in Seasons \cup {None} BY DEF DropoutShows
    <2>3. Default(s, e) \in Slots \cup {None} BY <2>2 DEF Default, Slots
    <2>4. Default(s, e) # Skip BY <2>3, PlansAssumption
    <2>5. SlotOf(Resolve(s, e)) = Default(s, e) BY <2>1, <2>4 DEF SlotOf
    <2>6. out <=> taken BY <2>1, <2>4
    <2>7. plain = row
      <3> HIDE DEF out, taken
      <3> QED BY <2>5, <2>6 DEF plain, row
    <2> QED BY <2>1, <2>3, <2>7 DEF row
  <1>4. CASE RemapsOf(s, e) # {}
    <2>1. PICK k \in 1..Len(s.remap) :
            /\ RemapsOf(s, e) = {k} /\ s.remap[k].ep = e
            /\ s.remap[k].to # Skip => Takes(s, e)
      BY <1>4, OneRemap
    <2>0. FirstRemap(s, e) = k /\ LastRemap(s, e) = k BY <2>1, Singleton
    <2>2. first = s.remap[k].to /\ last = s.remap[k].to BY <2>0
    <2>3. s.remap[k] \in Remaps BY DEF DropoutShows
    <2>4. s.remap[k].to \in Slots \cup {Skip} BY <2>3 DEF Remaps
    <2> HIDE DEF last, first
    <2>5. DropoutRow(s, e) = mapped /\ Resolve(s, e) = last BY <1>1, <1>2, <1>4, <2>2
    <2>6. (last = Skip) <=> (Resolve(s, e) = Skip \/ ~Takes(s, e)) BY <2>1, <2>2, <2>5
    <2>8. skip <=> out BY <2>6
    <2>9. mapped = row
      <3> HIDE DEF skip, out
      <3> QED BY <2>5, <2>8 DEF mapped, row
    <2> QED BY <2>2, <2>4, <2>5, <2>9 DEF row
  <1> QED BY <1>3, <1>4

(* An edit maps a cached row as a refresh would map its episode.           *)
LEMMA ReplanDropout ==
  ASSUME NEW s \in DropoutShows, Plain(s), NEW r \in Rows("dropout"), r.number = r.id
  PROVE  Replanned(s, r) = DropoutRow(s, r.id)
  <1>1. r.id \in Episodes /\ s.kind = "dropout" BY DEF Rows, Ids, DropoutShows
  <1> QED BY <1>1, ResolvePlain DEF Replanned

LEMMA ReplanYoutube ==
  ASSUME NEW s \in YoutubeShows, Plain(s), NEW r \in Rows("youtube")
  PROVE  Replanned(s, r) = [id |-> r.id, number |-> r.number, dest |-> <<s.season, r.number>>,
                            skipped |-> r.id \in s.skip]
  <1>1. s.kind = "youtube" /\ s.season # None BY DEF YoutubeShows, Plain
  <1> QED BY <1>1 DEF Replanned

-----------------------------------------------------------------------------
(***************************************************************************)
(* Types of what the mappings return, for any configuration: with several  *)
(* remaps of an episode there is a first and a last one.                   *)
(***************************************************************************)
LEMMA Smallest ==
  ASSUME NEW T \in SUBSET Nat, T # {}
  PROVE  \E x \in T : \A y \in T : x <= y
  <1> DEFINE R == OpToRel(<, Nat)
  <1>1. IsWellFoundedOn(R, Nat) BY NatLessThanWellFounded
  <1> HIDE DEF R
  <1>2. PICK x \in T : \A y \in T : ~(<<y, x>> \in R) BY <1>1, WFMin
  <1>3. \A y \in T : ~(y < x) BY <1>2 DEF R, OpToRel
  <1> QED BY <1>3

LEMMA Largest ==
  ASSUME NEW n \in Nat, NEW T \in SUBSET (1..n), T # {}
  PROVE  \E x \in T : \A y \in T : x >= y
  <1> DEFINE U == {n - i : i \in T}
  <1>1. \A i \in T : i \in Int /\ n - i \in Nat OBVIOUS
  <1>2. U \in SUBSET Nat BY <1>1
  <1>3. U # {} OBVIOUS
  <1> HIDE DEF U
  <1>4. PICK u \in U : \A v \in U : u <= v BY <1>2, <1>3, Smallest
  <1>5. PICK x \in T : u = n - x BY DEF U
  <1>6. \A y \in T : n - x <= n - y BY <1>4, <1>5 DEF U
  <1> QED BY <1>1, <1>6

LEMMA RemapTypes ==
  ASSUME NEW s \in DropoutShows, NEW e, RemapsOf(s, e) # {}
  PROVE  /\ s.remap[FirstRemap(s, e)].to \in Slots \cup {Skip}
         /\ s.remap[LastRemap(s, e)].to \in Slots \cup {Skip}
  <1> DEFINE T == RemapsOf(s, e)
  <1>1. s.remap \in Seq(Remaps) /\ Len(s.remap) \in Nat BY DEF DropoutShows
  <1>2. T \in SUBSET (1..Len(s.remap)) BY DEF RemapsOf
  <1>3. T \in SUBSET Nat BY <1>1, <1>2
  <1>4. \E i \in T : \A j \in T : i <= j BY <1>3, Smallest
  <1>5. \E i \in T : \A j \in T : i >= j BY <1>1, <1>2, Largest
  <1>6. FirstRemap(s, e) \in T BY <1>4 DEF FirstRemap
  <1>7. LastRemap(s, e) \in T BY <1>5 DEF LastRemap
  <1>8. \A i \in T : s.remap[i] \in Remaps BY <1>1, <1>2
  <1> HIDE DEF T
  <1> QED BY <1>6, <1>7, <1>8 DEF Remaps

LEMMA DefaultType ==
  ASSUME NEW s \in DropoutShows, NEW e \in Episodes
  PROVE  Default(s, e) \in Slots \cup {None}
  <1>1. s.season \in Seasons \cup {None} BY DEF DropoutShows
  <1> QED BY <1>1 DEF Default, Slots

LEMMA ResolveType ==
  ASSUME NEW s \in DropoutShows, NEW e \in Episodes
  PROVE  Resolve(s, e) \in Slots \cup {None, Skip} /\ SlotOf(Resolve(s, e)) \in Slots \cup {None}
  <1>1. Resolve(s, e) = IF RemapsOf(s, e) = {} THEN Default(s, e) ELSE s.remap[FirstRemap(s, e)].to
    BY DEF Resolve, FirstRemap
  <1>2. Resolve(s, e) \in Slots \cup {None, Skip} BY <1>1, DefaultType, RemapTypes
  <1> QED BY <1>2 DEF SlotOf

LEMMA DropoutRowType ==
  ASSUME NEW s \in DropoutShows, NEW e \in Episodes
  PROVE  DropoutRow(s, e) \in Rows("dropout") /\ DropoutRow(s, e).id = e /\ DropoutRow(s, e).number = e
  <1> DEFINE last == s.remap[LastRemap(s, e)].to
             skip == last = Skip
             taken == ~Takes(s, e)
             mapped == [id |-> e, number |-> e, dest |-> SlotOf(last), skipped |-> skip]
             plain == [id |-> e, number |-> e, dest |-> Default(s, e), skipped |-> taken]
  <1>1. DropoutRow(s, e) = IF RemapsOf(s, e) # {} THEN mapped ELSE plain
    BY DEF DropoutRow, LastRemap
  <1>2. e \in Nat /\ e \in Ids("dropout") BY PlansAssumption DEF Ids
  <1>3. RemapsOf(s, e) # {} => SlotOf(last) \in Slots \cup {None} BY RemapTypes DEF SlotOf
  <1>4. Default(s, e) \in Slots \cup {None} BY DefaultType
  <1>5. skip \in BOOLEAN /\ taken \in BOOLEAN OBVIOUS
  <1>6. RemapsOf(s, e) # {} => mapped \in Rows("dropout") /\ mapped.id = e /\ mapped.number = e
    <2> HIDE DEF skip, last
    <2> QED BY <1>2, <1>3, <1>5 DEF Rows
  <1>7. plain \in Rows("dropout") /\ plain.id = e /\ plain.number = e
    <2> HIDE DEF taken
    <2> QED BY <1>2, <1>4, <1>5 DEF Rows
  <1> HIDE DEF mapped, plain
  <1> QED BY <1>1, <1>6, <1>7

(* A listing of a playlist has a number and a video for each position.     *)
LEMMA Playlist ==
  ASSUME NEW f \in Listings("youtube")
  PROVE  /\ Len(f) \in Nat /\ Len(f) <= Cardinality(Videos) /\ f \in [1..Len(f) -> Videos]
         /\ \A i \in 1..Len(f) : i \in Numbers /\ f[i] \in Videos
         /\ \A i, j \in 1..Len(f) : f[i] = f[j] => i = j
  <1>1. Cardinality(Videos) \in Nat /\ Cardinality(Episodes) \in Nat
    BY PlansAssumption, FS_CardinalityType
  <1>2. PICK n \in 0..Cardinality(Videos) : f \in [1..n -> Videos] BY DEF Listings
  <1>3. n \in Nat /\ n <= Cardinality(Videos) /\ Len(f) = n BY <1>1, <1>2
  <1>4. \A i, j \in DOMAIN f : f[i] = f[j] => i = j BY DEF Listings
  <1> QED BY <1>1, <1>2, <1>3, <1>4 DEF Numbers

LEMMA SlotsOf ==
  ASSUME NEW n \in Seasons, NEW i \in Episodes \cup Numbers
  PROVE  <<n, i>> \in Slots /\ <<n, i>> # None
  BY PlansAssumption DEF Slots

-----------------------------------------------------------------------------
(***************************************************************************)
(* The inductive invariant.                                                *)
(***************************************************************************)
(* Whatever mapping made them, the rows of a view are one for each episode *)
(* that was listed.                                                        *)
DropoutRows(v) ==
  /\ \A r \in v.rows : r.id \in v.listed /\ r.number = r.id
  /\ \A e \in v.listed : \E r \in v.rows : r.id = e
  /\ \A r, q \in v.rows : r.id = q.id => r = q
YoutubeRows(v) ==
  /\ \A r \in v.rows : r.number \in 1..Len(v.listed) /\ r.id = v.listed[r.number] /\ r.dest \in Slots
  /\ \A i \in 1..Len(v.listed) : \E r \in v.rows : r.number = i

(* Those of a plain configuration are those of a refresh, and the library  *)
(* was there when it was scanned.                                          *)
Faithful(v) ==
  /\ v.kind = "dropout" => DropoutRows(v)
  /\ v.kind = "youtube" => YoutubeRows(v)
  /\ Plain(v.mapped) => v.rows = Mapping(v.mapped, v.listed)
  /\ v.disk.ready

ViewInv == view # NoView => Faithful(view)

(* The plan of a running job is that of the cached view: nothing but the   *)
(* user's editor works beside a job.                                       *)
JobInv ==
  job # NoJob => /\ view # NoView /\ job.of = view
                 /\ job.rows \subseteq {a \in Plan(view) : a.action \in {"download", "rename", "remove"}}

IInv == TypeOK /\ ViewInv /\ JobInv

LEMMA ConfigTypes ==
  /\ \A s : s \in Configs("dropout") => s \in DropoutShows /\ s.kind = "dropout"
  /\ \A s : s \in Configs("youtube") => s \in YoutubeShows /\ s.kind = "youtube"
  BY DEF Configs, DropoutShows, YoutubeShows

LEMMA ViewTypes ==
  ASSUME TypeOK
  PROVE  /\ view # NoView => /\ view \in Views(show.kind) /\ view.kind = show.kind
                             /\ view.rows \in SUBSET Rows(show.kind) /\ view.disk \in Inventories
                             /\ view.mapped \in Configs(show.kind) /\ view.listed \in Listings(show.kind)
                             /\ view.revision \in Configs(show.kind) /\ view.fresh \in BOOLEAN
         /\ NoView \notin Views(show.kind)
         /\ show.kind \in {"dropout", "youtube"} /\ show \in Configs(show.kind)
  <1>1. NoView \notin Views(show.kind)
    <2> SUFFICES ASSUME NoView \in Views(show.kind) PROVE FALSE OBVIOUS
    <2>1. NoView.kind = show.kind /\ show.kind \in Kinds BY DEF Views, TypeOK
    <2> QED BY <2>1 DEF NoView, Kinds
  <1> QED BY <1>1 DEF TypeOK, Views, Kinds

(* A view whose rows a refresh has just made.                              *)
LEMMA FreshRows ==
  ASSUME TypeOK, NEW v, v.kind = show.kind, v.rows = ProviderRows(show), v.mapped = show,
         v.listed = remote, v.disk.ready
  PROVE  v.rows \in SUBSET Rows(show.kind) /\ Faithful(v)
  <1>1. CASE show.kind = "dropout"
    <2>1. show \in DropoutShows /\ remote \in SUBSET Episodes
      BY <1>1, ConfigTypes DEF TypeOK, Listings
    <2>2. v.rows = {DropoutRow(show, e) : e \in remote} BY <1>1 DEF ProviderRows
    <2>3. \A e \in remote : /\ DropoutRow(show, e) \in Rows("dropout")
                            /\ DropoutRow(show, e).id = e /\ DropoutRow(show, e).number = e
      BY <2>1, DropoutRowType
    <2>4. DropoutRows(v) BY <2>2, <2>3 DEF DropoutRows
    <2>5. v.rows = Mapping(v.mapped, v.listed) BY <1>1, <2>2 DEF Mapping
    <2> QED BY <1>1, <2>2, <2>3, <2>4, <2>5 DEF Faithful
  <1>2. CASE show.kind = "youtube"
    <2>1. show \in YoutubeShows /\ remote \in Listings("youtube")
      BY <1>2, ConfigTypes DEF TypeOK
    <2>2. v.rows = {YoutubeRow(show, i) : i \in 1..Len(remote)} BY <1>2 DEF ProviderRows
    <2>3. \A i \in 1..Len(remote) : i \in Nat /\ i \in Numbers /\ remote[i] \in Videos
      BY <2>1, Playlist
    <2>4. (IF show.season = None THEN 1 ELSE show.season) \in Seasons
      BY <2>1, PlansAssumption DEF YoutubeShows
    <2>5. ASSUME NEW i \in 1..Len(remote)
          PROVE  /\ YoutubeRow(show, i) \in Rows("youtube") /\ YoutubeRow(show, i).dest \in Slots
                 /\ YoutubeRow(show, i).id = remote[i] /\ YoutubeRow(show, i).number = i
      <3> DEFINE n == IF show.season = None THEN 1 ELSE show.season
                 skip == remote[i] \in show.skip
      <3>1. <<n, i>> \in Slots BY <2>3, <2>4, SlotsOf
      <3>2. YoutubeRow(show, i) = [id |-> remote[i], number |-> i, dest |-> <<n, i>>, skipped |-> skip]
        BY DEF YoutubeRow
      <3>3. skip \in BOOLEAN OBVIOUS
      <3> HIDE DEF n, skip
      <3> QED BY <2>3, <3>1, <3>2, <3>3 DEF Rows, Ids
    <2>6. YoutubeRows(v) BY <2>2, <2>5 DEF YoutubeRows
    <2>7. Plain(show) => v.rows = Mapping(show, remote)
      <3> SUFFICES ASSUME Plain(show) PROVE v.rows = Mapping(show, remote) OBVIOUS
      <3>1. show.season # None BY <1>2 DEF Plain
      <3> QED BY <1>2, <2>2, <3>1 DEF Mapping, YoutubeRow
    <2> QED BY <1>2, <2>2, <2>5, <2>6, <2>7 DEF Faithful
  <1> QED BY <1>1, <1>2, ViewTypes

(* The rows of a view replanned for another configuration.                 *)
LEMMA ReplannedRows ==
  ASSUME TypeOK, view # NoView, Faithful(view), NEW s \in Configs(show.kind),
         NEW v, v.kind = show.kind, v.rows = {Replanned(s, r) : r \in view.rows}, v.mapped = s,
         v.listed = view.listed, v.disk = view.disk
  PROVE  v.rows \in SUBSET Rows(show.kind) /\ Faithful(v)
  <1>1. CASE show.kind = "dropout"
    <2>1. s \in DropoutShows /\ s.kind = "dropout" /\ view.listed \in SUBSET Episodes
      BY <1>1, ConfigTypes, ViewTypes DEF Listings
    <2>2. view.rows \in SUBSET Rows("dropout") /\ DropoutRows(view) BY <1>1, ViewTypes DEF Faithful
    <2>3. ASSUME NEW r \in view.rows
          PROVE  /\ Replanned(s, r) \in Rows("dropout")
                 /\ Replanned(s, r).id = r.id /\ Replanned(s, r).number = r.id
      <3> DEFINE dest == SlotOf(Resolve(s, r.number))
                 skip == Resolve(s, r.number) = Skip \/ ~Takes(s, r.number)
      <3>1. r.id \in Episodes /\ r.number = r.id /\ r.number \in Nat /\ r.id \in Ids("dropout")
        BY <2>1, <2>2, PlansAssumption DEF DropoutRows, Rows
      <3>2. Replanned(s, r) = [id |-> r.id, number |-> r.number, dest |-> dest, skipped |-> skip]
        BY <2>1 DEF Replanned
      <3>3. dest \in Slots \cup {None} /\ skip \in BOOLEAN BY <2>1, <3>1, ResolveType
      <3> HIDE DEF dest, skip
      <3> QED BY <3>1, <3>2, <3>3 DEF Rows
    <2>4. DropoutRows(v) BY <2>2, <2>3 DEF DropoutRows
    <2>5. ASSUME Plain(s) PROVE v.rows = Mapping(s, view.listed)
      <3>1. \A r \in view.rows : Replanned(s, r) = DropoutRow(s, r.id) /\ r.id \in view.listed
        BY <2>1, <2>2, <2>5, ReplanDropout DEF DropoutRows
      <3>2. \A e \in view.listed : \E r \in view.rows : r.id = e BY <2>2 DEF DropoutRows
      <3>3. v.rows = {DropoutRow(s, e) : e \in view.listed} BY <3>1, <3>2
      <3> QED BY <2>1, <3>3 DEF Mapping
    <2> QED BY <1>1, <2>3, <2>4, <2>5 DEF Faithful
  <1>2. CASE show.kind = "youtube"
    <2>1. s \in YoutubeShows /\ s.kind = "youtube" /\ view.listed \in Listings("youtube")
      BY <1>2, ConfigTypes, ViewTypes
    <2>2. view.rows \in SUBSET Rows("youtube") /\ YoutubeRows(view) BY <1>2, ViewTypes DEF Faithful
    <2>3. ASSUME NEW r \in view.rows
          PROVE  /\ Replanned(s, r) \in Rows("youtube") /\ Replanned(s, r).dest \in Slots
                 /\ Replanned(s, r).id = r.id /\ Replanned(s, r).number = r.number
      <3> DEFINE dest == IF s.season = None THEN r.dest ELSE <<s.season, r.number>>
                 skip == r.id \in s.skip
      <3>1. r.id \in Ids("youtube") /\ r.number \in Nat /\ r.dest \in Slots
            /\ r.number \in 1..Len(view.listed)
        BY <2>2 DEF YoutubeRows, Rows
      <3>2. r.number \in Numbers BY <2>1, <3>1, Playlist
      <3>3. Replanned(s, r) = [id |-> r.id, number |-> r.number, dest |-> dest, skipped |-> skip]
        BY <2>1 DEF Replanned
      <3>4. s.season \in Seasons \cup {None} BY <2>1 DEF YoutubeShows
      <3>5. dest \in Slots /\ skip \in BOOLEAN BY <3>1, <3>2, <3>4, SlotsOf
      <3> HIDE DEF dest, skip
      <3> QED BY <3>1, <3>3, <3>5 DEF Rows
    <2>4. YoutubeRows(v) BY <2>2, <2>3 DEF YoutubeRows
    <2>5. ASSUME Plain(s) PROVE v.rows = Mapping(s, view.listed)
      <3> DEFINE row(i) == [id |-> view.listed[i], number |-> i, dest |-> <<s.season, i>>,
                            skipped |-> view.listed[i] \in s.skip]
      <3>1. \A r \in view.rows : Replanned(s, r) = row(r.number) /\ r.number \in 1..Len(view.listed)
        BY <2>1, <2>2, <2>5, ReplanYoutube DEF YoutubeRows
      <3>2. \A i \in 1..Len(view.listed) : \E r \in view.rows : r.number = i BY <2>2 DEF YoutubeRows
      <3>3. Mapping(s, view.listed) = {row(i) : i \in 1..Len(view.listed)} BY <2>1 DEF Mapping
      <3> HIDE DEF row
      <3> QED BY <3>1, <3>2, <3>3
    <2> QED BY <1>2, <2>3, <2>4, <2>5 DEF Faithful
  <1> QED BY <1>1, <1>2, ViewTypes

LEMMA EditedType ==
  ASSUME TypeOK, NEW s \in Edited
  PROVE  s \in Configs(show.kind) /\ s.kind = show.kind
  <1>1. CASE show.kind = "dropout"
    <2>1. show \in DropoutShows BY <1>1, ConfigTypes, ViewTypes
    <2>2. \/ \E n \in Seasons \cup {None} : s = [show EXCEPT !.season = n]
          \/ \E rs \in RemapLists : s = [show EXCEPT !.remap = rs]
          \/ \E es \in SUBSET Episodes : s = [show EXCEPT !.only = es]
      BY <1>1 DEF Edited
    <2>3. s \in DropoutShows BY <2>1, <2>2, PlansAssumption DEF DropoutShows
    <2> QED BY <1>1, <2>3 DEF Configs, DropoutShows
  <1>2. CASE show.kind = "youtube"
    <2>1. show \in YoutubeShows BY <1>2, ConfigTypes, ViewTypes
    <2>2. \/ \E n \in Seasons \cup {None} : s = [show EXCEPT !.season = n]
          \/ \E ws \in SUBSET Videos : s = [show EXCEPT !.skip = ws]
      BY <1>2 DEF Edited
    <2>3. s \in YoutubeShows BY <2>1, <2>2 DEF YoutubeShows
    <2> QED BY <1>2, <2>3 DEF Configs, YoutubeShows
  <1> QED BY <1>1, <1>2, ViewTypes

LEMMA SnapshotType == ASSUME TypeOK PROVE Snapshot \in Inventories /\ Snapshot.ready = lib.there
  <1>1. NoIndex \in [Videos -> Slots \cup {None}] BY DEF NoIndex
  <1>2. /\ lib.there \in BOOLEAN /\ lib.slots \in SUBSET Slots
        /\ lib.index \in [Videos -> Slots \cup {None}]
    BY DEF TypeOK
  <1> DEFINE slots == IF lib.there THEN lib.slots ELSE {}
             index == IF lib.there THEN lib.index ELSE NoIndex
             ready == lib.there
  <1>3. slots \in SUBSET Slots /\ index \in [Videos -> Slots \cup {None}] BY <1>1, <1>2
  <1>4. Snapshot = [ready |-> ready, slots |-> slots, index |-> index] BY DEF Snapshot
  <1> HIDE DEF slots, index
  <1> QED BY <1>2, <1>3, <1>4 DEF Inventories

LEMMA NewView ==
  ASSUME TypeOK, NEW rows \in SUBSET Rows(show.kind), NEW disk \in Inventories,
         NEW mapped \in Configs(show.kind), NEW listed \in Listings(show.kind)
  PROVE  LET v == View(rows, disk, mapped, listed)
         IN  /\ v \in Views(show.kind) /\ v # NoView /\ v.kind = show.kind /\ v.rows = rows
             /\ v.disk = disk /\ v.mapped = mapped /\ v.listed = listed
  <1>1. View(rows, disk, mapped, listed) \in Views(show.kind) BY ViewTypes DEF View, Views
  <1> QED BY <1>1, ViewTypes DEF View

LEMMA RefreshStep ==
  ASSUME IInv, Refresh
  PROVE  view' \in Views(show.kind) /\ Faithful(view)'
  <1> USE DEF IInv
  <1>1. ASSUME NEW disk \in Inventories, disk.ready, view' = View(ProviderRows(show), disk, show, remote)
        PROVE  view' \in Views(show.kind) /\ Faithful(view)'
    <2> DEFINE v == View(ProviderRows(show), disk, show, remote)
    <2>1. /\ v.kind = show.kind /\ v.rows = ProviderRows(show) /\ v.disk = disk
          /\ v.mapped = show /\ v.listed = remote
      BY DEF View
    <2>2. v.rows \in SUBSET Rows(show.kind) /\ Faithful(v)
      <3> HIDE DEF v
      <3> QED BY <1>1, <2>1, FreshRows
    <2>3. v \in Views(show.kind) BY <2>1, <2>2, ViewTypes, NewView DEF TypeOK
    <2>4. view' = v BY <1>1
    <2> HIDE DEF v
    <2> QED BY <2>2, <2>3, <2>4 DEF Faithful, DropoutRows, YoutubeRows
  <1>2. CASE ~lib.there /\ view # NoView /\ view' = [view EXCEPT !.fresh = FALSE]
    <2>1. view \in Views(show.kind) /\ Faithful(view) BY <1>2, ViewTypes DEF ViewInv
    <2>2. view' \in Views(show.kind) BY <1>2, <2>1 DEF Views
    <2>3. /\ view'.kind = view.kind /\ view'.rows = view.rows /\ view'.disk = view.disk
          /\ view'.mapped = view.mapped /\ view'.listed = view.listed
      BY <1>2, <2>1 DEF Views
    <2> QED BY <2>1, <2>2, <2>3 DEF Faithful, DropoutRows, YoutubeRows
  <1>3. CASE lib.there /\ view' = View(ProviderRows(show), Snapshot, show, remote)
    BY <1>1, <1>3, SnapshotType
  <1>4. CASE lib.there /\ view # NoView /\ view' = View(view.rows, Snapshot, view.mapped, view.listed)
    <2>1. /\ view' \in Views(show.kind) /\ view'.kind = show.kind /\ view'.rows = view.rows
          /\ view'.disk = Snapshot /\ view'.mapped = view.mapped /\ view'.listed = view.listed
      BY <1>4, SnapshotType, ViewTypes, NewView
    <2>2. view.kind = show.kind /\ Faithful(view) /\ view'.disk.ready
      BY <1>4, <2>1, SnapshotType, ViewTypes DEF ViewInv
    <2> QED BY <2>1, <2>2 DEF Faithful, DropoutRows, YoutubeRows
  <1>5. CASE view # NoView /\ view' = View(ProviderRows(show), view.disk, show, remote)
    <2>1. view.disk \in Inventories /\ view.disk.ready BY <1>5, ViewTypes DEF ViewInv, Faithful
    <2> QED BY <1>1, <1>5, <2>1
  <1> QED BY <1>2, <1>3, <1>4, <1>5 DEF Refresh

LEMMA EditStep ==
  ASSUME IInv, Edit
  PROVE  /\ view' \in Views(show.kind) \cup {NoView}
         /\ view' # NoView => Faithful(view)'
  <1> USE DEF IInv
  <1>1. show' \in Configs(show.kind) /\ show'.kind = show.kind BY EditedType DEF Edit
  <1>2. CASE view # NoView /\ view.fresh
    <2> DEFINE rows == {Replanned(show', r) : r \in view.rows}
    <2>1. view \in Views(show.kind) /\ Faithful(view) BY <1>2, ViewTypes DEF ViewInv
    <2>2. view' = [view EXCEPT !.rows = rows, !.revision = show', !.mapped = show']
      BY <1>2 DEF Edit
    <2>3. /\ view'.kind = show.kind /\ view'.rows = rows /\ view'.disk = view.disk
          /\ view'.mapped = show' /\ view'.listed = view.listed
      <3> HIDE DEF rows
      <3> QED BY <2>1, <2>2 DEF Views
    <2>4. rows \in SUBSET Rows(show.kind) /\ Faithful(view')
      BY <1>1, <1>2, <2>1, <2>3, ReplannedRows
    <2>5. view' \in Views(show.kind)
      <3> HIDE DEF rows
      <3> QED BY <1>1, <2>1, <2>2, <2>4 DEF Views
    <2> QED BY <2>4, <2>5 DEF Faithful, DropoutRows, YoutubeRows
  <1>3. CASE ~(view # NoView /\ view.fresh)
    <2>1. view' = view BY <1>3 DEF Edit
    <2> QED BY <2>1, ViewTypes DEF ViewInv, Faithful, DropoutRows, YoutubeRows
  <1> QED BY <1>2, <1>3

(* What is selected of a plan is a download, a rename or a removal, with a *)
(* slot.                                                                   *)
LEMMA PlanTypes ==
  ASSUME TypeOK, view # NoView, Faithful(view), NEW a \in Plan(view),
         a.action \in {"download", "rename", "remove"}
  PROVE  /\ a \in Actions(show.kind)
         /\ show.kind = "dropout" =>
              \E r \in view.rows : /\ a.id = r.id /\ a.dest = r.dest /\ ~r.skipped
                                  /\ r.dest # None /\ r.dest \notin view.disk.slots
         /\ show.kind = "youtube" /\ a.action = "download" =>
              \E r \in view.rows : /\ a.id = r.id /\ a.dest = r.dest /\ ~r.skipped
                                  /\ view.disk.index[r.id] = None
  <1>1. CASE show.kind = "dropout"
    <2>1. view.kind = "dropout" /\ view.rows \in SUBSET Rows("dropout") BY <1>1, ViewTypes
    <2>2. PICK r \in view.rows : a = [id |-> r.id, action |-> DropoutAction(r, view.disk), dest |-> r.dest]
      BY <2>1 DEF Plan, Action
    <2>3. a.id = r.id /\ a.dest = r.dest /\ a.action = DropoutAction(r, view.disk) BY <2>2
    <2>4. DropoutAction(r, view.disk) = "download" /\ ~r.skipped /\ r.dest # None
          /\ r.dest \notin view.disk.slots
      BY <2>3 DEF DropoutAction
    <2>5. r.id \in Ids("dropout") /\ r.dest \in Slots BY <2>1, <2>4 DEF Rows
    <2>6. a \in Actions("dropout")
      <3> DEFINE act == DropoutAction(r, view.disk)
      <3>1. act \in {"download", "rename", "remove"} /\ a = [id |-> r.id, action |-> act, dest |-> r.dest]
        BY <2>2, <2>4
      <3> HIDE DEF act
      <3> QED BY <2>5, <3>1 DEF Actions
    <2> QED BY <1>1, <2>3, <2>4, <2>6
  <1>2. CASE show.kind = "youtube"
    <2>1. /\ view.kind = "youtube" /\ view.rows \in SUBSET Rows("youtube") /\ YoutubeRows(view)
          /\ view.disk \in Inventories
      BY <1>2, ViewTypes DEF Faithful
    <2>2. \/ \E r \in view.rows : ~r.skipped /\ a = Action(r.id, YoutubeAction(r, view.disk), r.dest)
          \/ \E w \in Removed(view) : a = Action(w, "remove", view.disk.index[w])
      BY <2>1 DEF Plan
    <2>3. CASE \E r \in view.rows : ~r.skipped /\ a = Action(r.id, YoutubeAction(r, view.disk), r.dest)
      <3> PICK r \in view.rows : ~r.skipped /\ a = Action(r.id, YoutubeAction(r, view.disk), r.dest)
        BY <2>3
      <3> DEFINE act == YoutubeAction(r, view.disk)
      <3>1. r.id \in Ids("youtube") /\ r.dest \in Slots BY <2>1 DEF Rows, YoutubeRows
      <3>2. a = [id |-> r.id, action |-> act, dest |-> r.dest] BY DEF Action
      <3>3. act = "download" => view.disk.index[r.id] = None BY DEF YoutubeAction
      <3> HIDE DEF act
      <3>4. a.id = r.id /\ a.action = act /\ a.dest = r.dest BY <3>2
      <3>5. a \in Actions("youtube") BY <3>1, <3>2, <3>4 DEF Actions
      <3> QED BY <1>2, <3>3, <3>4, <3>5
    <2>4. CASE \E w \in Removed(view) : a = Action(w, "remove", view.disk.index[w])
      <3> PICK w \in Removed(view) : a = Action(w, "remove", view.disk.index[w]) BY <2>4
      <3>1. w \in Ids("youtube") /\ view.disk.index[w] # None BY DEF Removed, Ids
      <3>2. view.disk.index[w] \in Slots BY <2>1, <3>1 DEF Inventories, Ids
      <3> DEFINE dest == view.disk.index[w]
      <3>3. a = [id |-> w, action |-> "remove", dest |-> dest] BY DEF Action
      <3> HIDE DEF dest
      <3>4. dest \in Slots BY <3>2 DEF dest
      <3>5. a \in Actions("youtube") /\ a.action = "remove" BY <3>1, <3>3, <3>4 DEF Actions
      <3> QED BY <1>2, <3>5
    <2> QED BY <2>2, <2>3, <2>4
  <1> QED BY <1>1, <1>2, ViewTypes

LEMMA JobTypes ==
  ASSUME IInv, job # NoJob
  PROVE  /\ job.kind = show.kind /\ job.rows \in SUBSET Actions(show.kind) /\ job.of = view
         /\ view # NoView /\ view \in Views(show.kind) /\ Faithful(view)
         /\ \A a \in job.rows : a \in Plan(view) /\ a.action \in {"download", "rename", "remove"}
  BY ViewTypes DEF IInv, TypeOK, JobInv, ViewInv

LEMMA FoundTypes ==
  ASSUME TypeOK
  PROVE  /\ Found.slots \in SUBSET Slots /\ Found.index \in [Videos -> Slots \cup {None}]
         /\ Found.record \in Seasons \cup {None}
         /\ lib.there => Found = lib
         /\ show.kind = "youtube" => LiveSeason \in Seasons
  <1>1. NoIndex \in [Videos -> Slots \cup {None}] BY DEF NoIndex
  <1>2. /\ lib.slots \in SUBSET Slots /\ lib.index \in [Videos -> Slots \cup {None}]
        /\ lib.record \in Seasons \cup {None}
    BY DEF TypeOK
  <1>3. CASE lib.there
    <2>1. Found = lib BY <1>3 DEF Found
    <2> QED BY <1>2, <2>1, ConfigTypes, ViewTypes, PlansAssumption DEF LiveSeason, YoutubeShows
  <1>4. CASE ~lib.there
    <2>1. Found = [there |-> FALSE, slots |-> {}, index |-> NoIndex, record |-> None]
      BY <1>4 DEF Found
    <2>2. Found.slots = {} /\ Found.index = NoIndex /\ Found.record = None BY <2>1
    <2> QED BY <1>1, <1>4, <2>2, ConfigTypes, ViewTypes, PlansAssumption DEF LiveSeason, YoutubeShows
  <1> QED BY <1>3, <1>4

(* The executor finds the selection of an unchanged plan, by its own code. *)
LEMMA SelectionIsMeant ==
  ASSUME IInv, job # NoJob, Plain(show), Quiet, NEW a \in job.rows, a.action = "download"
  PROVE  Meant(a)
  <1>1. view.rows = Mapping(show, remote) /\ TypeOK
    BY JobTypes DEF Quiet, Faithful, IInv
  <1>2. CASE show.kind = "dropout"
    <2>1. show \in DropoutShows /\ remote \in SUBSET Episodes
      BY <1>1, <1>2, ConfigTypes, ViewTypes DEF TypeOK, Listings
    <2>2. PICK r \in view.rows : a.id = r.id /\ a.dest = r.dest /\ ~r.skipped /\ r.dest # None
      BY <1>1, <1>2, JobTypes, PlanTypes
    <2>3. PICK e \in remote : r = DropoutRow(show, e) BY <1>1, <1>2 DEF Mapping
    <2> DEFINE skip == Resolve(show, e) = Skip \/ ~Takes(show, e)
               dest == SlotOf(Resolve(show, e))
    <2>4. Resolve(show, e) \in Slots \cup {None, Skip}
          /\ r = [id |-> e, number |-> e, dest |-> dest, skipped |-> skip]
      BY <2>1, <2>3, ResolvePlain
    <2>5. r.id = e /\ r.dest = dest /\ r.skipped = skip
      <3> HIDE DEF dest, skip
      <3> QED BY <2>4
    <2>6. Resolve(show, e) # Skip /\ Takes(show, e) BY <2>2, <2>5
    <2>7. Resolve(show, e) = a.dest /\ a.dest # None BY <2>2, <2>5, <2>6 DEF SlotOf
    <2>8. a.id = e /\ Resolve(show, e) \in Slots BY <2>2, <2>4, <2>5, <2>6, <2>7
    <2> QED BY <1>2, <2>6, <2>7, <2>8, JobTypes DEF Meant, DropoutJobs
  <1>3. CASE show.kind = "youtube"
    <2>1. show \in YoutubeShows /\ show.season # None
      BY <1>1, <1>3, ConfigTypes, ViewTypes DEF Plain
    <2>2. PICK r \in view.rows : a.id = r.id /\ a.dest = r.dest /\ ~r.skipped
                                 /\ view.disk.index[r.id] = None
      BY <1>1, <1>3, JobTypes, PlanTypes
    <2>3. PICK i \in 1..Len(remote) :
            r = [id |-> remote[i], number |-> i, dest |-> <<show.season, i>>,
                 skipped |-> remote[i] \in show.skip]
      BY <1>1, <1>3 DEF Mapping
    <2> DEFINE skip == remote[i] \in show.skip
               dest == <<show.season, i>>
    <2>4. r.id = remote[i] /\ r.dest = dest /\ r.skipped = skip
      <3>1. r = [id |-> remote[i], number |-> i, dest |-> dest, skipped |-> skip] BY <2>3
      <3> HIDE DEF dest, skip
      <3> QED BY <3>1
    <2>5. remote[i] = a.id /\ a.id \notin show.skip /\ a.dest = <<show.season, i>> BY <2>2, <2>4
    <2>6. Found.index[a.id] = None BY <1>1, <2>2, FoundTypes, JobTypes DEF Quiet
    <2>7. LiveSeason = show.season BY <2>1 DEF LiveSeason
    <2> QED BY <1>3, <2>5, <2>6, <2>7, JobTypes DEF Meant
  <1> QED BY <1>1, <1>2, <1>3, ViewTypes

LEMMA RunsSelection == IInv => SelectionRuns
  <1> SUFFICES ASSUME IInv, job # NoJob, Plain(show), Quiet, Executable(job.rows, Plan(job.of))
               PROVE  Runs
    BY DEF SelectionRuns
  <1>1. \A a \in job.rows : a.action = "download" BY DEF Executable
  <1> QED BY <1>1, SelectionIsMeant DEF Runs, Quiet

(* What the executor finds is put in the slot that was selected.           *)
LEMMA TargetIsDest ==
  ASSUME IInv, job # NoJob, NEW a \in job.rows, Meant(a)
  PROVE  Target(a) = a.dest
  <1>1. CASE show.kind = "dropout" BY <1>1, JobTypes DEF Meant, Target
  <1>2. CASE show.kind = "youtube"
    <2>1. job.kind # "dropout" BY <1>2, JobTypes
    <2>2. PICK i \in 1..Len(remote) : remote[i] = a.id /\ a.dest = <<LiveSeason, i>>
      BY <2>1 DEF Meant
    <2>3. remote \in Listings("youtube") BY <1>2 DEF IInv, TypeOK
    <2>4. \A j \in 1..Len(remote) : remote[j] = a.id => j = i BY <2>2, <2>3, Playlist
    <2>5. (CHOOSE j \in 1..Len(remote) : remote[j] = a.id) = i BY <2>2, <2>4
    <2> QED BY <2>1, <2>2, <2>5 DEF Target
  <1> QED BY <1>1, <1>2, ViewTypes DEF IInv

LEMMA PostStep ==
  ASSUME IInv, Post
  PROVE  IInv'
  <1> USE DEF IInv
  <1>1. PICK S \in SUBSET {a \in Planned : a.action \in {"download", "rename", "remove"}} :
          S # {} /\ job' = [kind |-> show.kind, rows |-> S, of |-> view]
    BY DEF Post
  <1>2. /\ show' = show /\ remote' = remote /\ lib' = lib /\ view' = view
        /\ edits' = edits /\ changes' = changes
    BY DEF Post
  <1>3. Current /\ Planned = Plan(view) BY <1>1 DEF Planned
  <1>4. view # NoView /\ Faithful(view) /\ view \in Views(show.kind) BY <1>3, ViewTypes DEF Current, ViewInv
  <1>5. S \in SUBSET Actions(show.kind) BY <1>3, <1>4, PlanTypes
  <1>6. /\ job'.kind = show.kind /\ job'.rows = S /\ job'.of = view
        /\ job' \in [kind : {show.kind}, rows : SUBSET Actions(show.kind), of : Views(show.kind)]
    BY <1>1, <1>4, <1>5
  <1>7. TypeOK' BY <1>2, <1>6 DEF TypeOK
  <1>8. Plan(view)' = Plan(view)
    BY <1>2 DEF Plan, Removed, DropoutAction, YoutubeAction, Action
  <1>9. JobInv' BY <1>1, <1>2, <1>3, <1>4, <1>6, <1>8 DEF JobInv
  <1> QED BY <1>2, <1>4, <1>7, <1>9 DEF ViewInv, Faithful, DropoutRows, YoutubeRows

LEMMA ExecuteStep ==
  ASSUME IInv, Execute
  PROVE  IInv'
  <1> USE DEF IInv
  <1>1. PICK done \in SUBSET {a \in job.rows : ~Nothing /\ a.dest \notin Found.slots} :
          /\ lib' = IF Nothing THEN lib
                    ELSE [there |-> TRUE,
                          slots |-> Found.slots \cup {Target(a) : a \in done},
                          index |-> [w \in Videos |->
                              IF job.kind = "youtube" /\ \E a \in done : a.id = w
                              THEN Target(CHOOSE a \in done : a.id = w) ELSE Found.index[w]],
                          record |-> IF job.kind = "youtube" THEN LiveSeason ELSE None]
          /\ view' = Recorded(view, {a.dest : a \in done})
    BY DEF Execute
  <1>2. /\ job # NoJob /\ Runs /\ job' = NoJob /\ show' = show /\ remote' = remote
        /\ edits' = edits /\ changes' = changes
    BY DEF Execute
  <1>3. \A a \in done : Target(a) = a.dest /\ a.dest \in Slots
    <2> SUFFICES ASSUME NEW a \in done PROVE Target(a) = a.dest /\ a.dest \in Slots OBVIOUS
    <2>1. a \in job.rows /\ Meant(a) BY <1>2 DEF Runs
    <2>2. a.dest \in Slots BY <1>2, <2>1, JobTypes DEF Actions
    <2> QED BY <1>2, <2>1, <2>2, TargetIsDest
  <1>4. lib' \in [there : BOOLEAN, slots : SUBSET Slots, index : [Videos -> Slots \cup {None}],
                 record : Seasons \cup {None}]
    <2>1. CASE Nothing BY <1>1, <2>1 DEF TypeOK
    <2>2. CASE ~Nothing
      <3> DEFINE slots == Found.slots \cup {Target(a) : a \in done}
                 index == [w \in Videos |->
                              IF job.kind = "youtube" /\ \E a \in done : a.id = w
                              THEN Target(CHOOSE a \in done : a.id = w) ELSE Found.index[w]]
                 record == IF job.kind = "youtube" THEN LiveSeason ELSE None
      <3>1. slots \in SUBSET Slots BY <1>3, FoundTypes
      <3>2. index \in [Videos -> Slots \cup {None}]
        <4> SUFFICES ASSUME NEW w \in Videos
                     PROVE  (IF job.kind = "youtube" /\ \E a \in done : a.id = w
                             THEN Target(CHOOSE a \in done : a.id = w) ELSE Found.index[w])
                              \in Slots \cup {None}
          OBVIOUS
        <4>1. CASE \E a \in done : a.id = w
          <5>1. (CHOOSE a \in done : a.id = w) \in done BY <4>1
          <5>2. Target(CHOOSE a \in done : a.id = w) \in Slots BY <1>3, <5>1
          <5> QED BY <5>2, FoundTypes
        <4>2. CASE ~\E a \in done : a.id = w BY <4>2, FoundTypes
        <4> QED BY <4>1, <4>2
      <3>3. record \in Seasons \cup {None} BY <1>2, FoundTypes, JobTypes
      <3>4. lib' = [there |-> TRUE, slots |-> slots, index |-> index, record |-> record] BY <1>1, <2>2
      <3> HIDE DEF slots, index, record
      <3> QED BY <3>1, <3>2, <3>3, <3>4
    <2> QED BY <2>1, <2>2
  <1> DEFINE placed == {a.dest : a \in done}
             disk == [view.disk EXCEPT !.slots = @ \cup placed]
  <1>5. placed \in SUBSET Slots BY <1>3
  <1>6. view' = [view EXCEPT !.disk = disk] BY <1>1 DEF Recorded
  <1>7. view \in Views(show.kind) /\ view # NoView /\ Faithful(view) /\ view.disk \in Inventories
    BY <1>2, JobTypes, ViewTypes
  <1> HIDE DEF placed
  <1>8. disk \in Inventories /\ disk.ready = view.disk.ready BY <1>5, <1>7 DEF Inventories
  <1> HIDE DEF disk
  <1>9. /\ view' \in Views(show.kind) /\ view'.kind = view.kind /\ view'.rows = view.rows
        /\ view'.disk = disk /\ view'.mapped = view.mapped /\ view'.listed = view.listed
    BY <1>6, <1>7, <1>8 DEF Views
  <1>12. view'.disk.ready BY <1>7, <1>8, <1>9 DEF Faithful
  <1>10. Faithful(view)' BY <1>7, <1>9, <1>12 DEF Faithful, DropoutRows, YoutubeRows
  <1>11. TypeOK' BY <1>2, <1>4, <1>9 DEF TypeOK
  <1> QED BY <1>2, <1>10, <1>11 DEF ViewInv, JobInv

LEMMA InvStep == IInv /\ [Next]_vars => IInv'
  <1> SUFFICES ASSUME IInv, [Next]_vars PROVE IInv' OBVIOUS
  <1> USE DEF IInv
  <1>0. TypeOK /\ ViewInv /\ JobInv OBVIOUS
  <1>a. ASSUME UNCHANGED <<view, job>> PROVE ViewInv' /\ JobInv'
    <2>1. view' = view /\ job' = job BY <1>a
    <2>2. Plan(view)' = Plan(view)
      BY <2>1 DEF Plan, Removed, DropoutAction, YoutubeAction, Action
    <2> QED BY <1>0, <2>1, <2>2 DEF ViewInv, JobInv, Faithful, DropoutRows, YoutubeRows
  <1>b. ASSUME job' = NoJob, view' # NoView => Faithful(view)' PROVE ViewInv' /\ JobInv'
    BY <1>b DEF ViewInv, JobInv
  <1>1. CASE Refresh
    <2>1. /\ view' \in Views(show.kind) /\ Faithful(view)' BY <1>1, RefreshStep
    <2>2. TypeOK' BY <1>0, <1>1, <2>1 DEF Refresh, TypeOK
    <2> QED BY <1>1, <1>b, <2>1, <2>2 DEF Refresh
  <1>2. CASE Edit
    <2>1. /\ view' \in Views(show.kind) \cup {NoView} /\ (view' # NoView => Faithful(view)')
      BY <1>2, EditStep
    <2>2. show' \in Configs(show.kind) /\ show'.kind = show.kind BY <1>2, EditedType DEF Edit
    <2>3. job' = NoJob /\ edits' \in 0..MaxEdits
          /\ UNCHANGED <<remote, lib, changes>>
      BY <1>0, <1>2, PlansAssumption DEF Edit, TypeOK
    <2>4. TypeOK' BY <1>0, <2>1, <2>2, <2>3 DEF TypeOK
    <2> QED BY <1>b, <2>1, <2>3, <2>4
  <1>3. CASE HandEdit
    <2>1. show' \in Configs(show.kind) /\ show'.kind = show.kind BY <1>3, EditedType DEF HandEdit
    <2>2. edits' \in 0..MaxEdits /\ UNCHANGED <<remote, lib, view, job, changes>>
      BY <1>0, <1>3, PlansAssumption DEF HandEdit, TypeOK
    <2>3. TypeOK' BY <1>0, <2>1, <2>2 DEF TypeOK
    <2> QED BY <1>a, <2>2, <2>3
  <1>4. CASE Post BY <1>4, PostStep
  <1>5. CASE Refuse
    <2>1. job' = NoJob /\ UNCHANGED <<show, remote, lib, view, edits, changes>> BY <1>5 DEF Refuse
    <2>2. TypeOK' BY <1>0, <2>1 DEF TypeOK
    <2>3. view' # NoView => Faithful(view)' BY <1>0, <2>1 DEF ViewInv, Faithful, DropoutRows, YoutubeRows
    <2> QED BY <1>b, <2>1, <2>2, <2>3
  <1>6. CASE Execute BY <1>6, ExecuteStep
  <1>7. CASE ProviderChanges \/ UserFile \/ Mount
    <2>1. UNCHANGED <<show, view, job, edits>> /\ changes' \in 0..MaxChanges
      BY <1>0, <1>7, PlansAssumption DEF ProviderChanges, UserFile, Mount, Change, TypeOK
    <2>2. remote' \in Listings(show.kind) BY <1>0, <1>7 DEF ProviderChanges, UserFile, Mount, TypeOK
    <2>3. lib' \in [there : BOOLEAN, slots : SUBSET Slots, index : [Videos -> Slots \cup {None}],
                   record : Seasons \cup {None}]
      <3>1. CASE ProviderChanges BY <1>0, <3>1 DEF ProviderChanges, TypeOK
      <3>2. CASE UserFile
        <4> PICK s \in Slots : lib' = [lib EXCEPT !.slots = IF s \in @ THEN @ \ {s} ELSE @ \cup {s}]
          BY <3>2 DEF UserFile
        <4> DEFINE slots == IF s \in lib.slots THEN lib.slots \ {s} ELSE lib.slots \cup {s}
        <4>1. slots \in SUBSET Slots /\ lib' = [lib EXCEPT !.slots = slots] BY <1>0 DEF TypeOK
        <4> HIDE DEF slots
        <4> QED BY <1>0, <4>1 DEF TypeOK
      <3>3. CASE Mount
        <4> DEFINE there == ~lib.there
        <4>1. there \in BOOLEAN /\ lib' = [lib EXCEPT !.there = there] BY <3>3 DEF Mount
        <4> HIDE DEF there
        <4> QED BY <1>0, <4>1 DEF TypeOK
      <3> QED BY <1>7, <3>1, <3>2, <3>3
    <2>4. TypeOK' BY <1>0, <2>1, <2>2, <2>3 DEF TypeOK
    <2> QED BY <1>a, <2>1, <2>4
  <1>8. CASE UNCHANGED vars
    <2>1. UNCHANGED <<show, remote, lib, view, job, edits, changes>> BY <1>8 DEF vars
    <2>2. TypeOK' BY <1>0, <2>1 DEF TypeOK
    <2> QED BY <1>a, <2>1, <2>2
  <1> QED BY <1>1, <1>2, <1>3, <1>4, <1>5, <1>6, <1>7, <1>8 DEF Next

LEMMA InitInv == Init => IInv
  <1> SUFFICES ASSUME Init PROVE IInv OBVIOUS
  <1>1. show \in DropoutShows \cup YoutubeShows BY PlansAssumption DEF Init
  <1>2. show.kind \in Kinds /\ show \in Configs(show.kind)
    BY <1>1 DEF Kinds, Configs, DropoutShows, YoutubeShows
  <1>3. lib \in [there : BOOLEAN, slots : SUBSET Slots, index : [Videos -> Slots \cup {None}],
                record : Seasons \cup {None}]
    <2>1. NoIndex \in [Videos -> Slots \cup {None}] BY DEF NoIndex
    <2> QED BY <2>1 DEF Init
  <1>4. edits \in 0..MaxEdits /\ changes \in 0..MaxChanges BY PlansAssumption DEF Init
  <1>5. TypeOK BY <1>2, <1>3, <1>4 DEF Init, TypeOK
  <1> QED BY <1>5 DEF IInv, ViewInv, JobInv, Init

LEMMA AgreesWithPage == IInv => PageAgrees
  <1> SUFFICES ASSUME IInv, Current, view.mapped = show, Plain(show), show.kind = "dropout",
                      NEW e \in view.listed
               PROVE  PageStatus(show, e, view.disk.slots) = "missing" <=> \E a \in Queue : a.id = e
    BY DEF PageAgrees
  <1>1. /\ view # NoView /\ view.kind = "dropout" /\ view.listed \in SUBSET Episodes
        /\ show \in DropoutShows /\ Faithful(view) /\ Planned = Plan(view)
    BY ViewTypes, ConfigTypes DEF Current, IInv, ViewInv, Listings, Planned
  <1>2. view.rows = {DropoutRow(show, d) : d \in view.listed} /\ view.disk.ready /\ DropoutRows(view)
    BY <1>1 DEF Faithful, Mapping
  <1> DEFINE to == Resolve(show, e)
             skip == to = Skip \/ ~Takes(show, e)
             dest == SlotOf(to)
             row == DropoutRow(show, e)
  <1>3. row = [id |-> e, number |-> e, dest |-> dest, skipped |-> skip]
    BY <1>1, ResolvePlain
  <1>4. row.id = e /\ row.dest = dest /\ row.skipped = skip
    <2> HIDE DEF dest, skip, row
    <2> QED BY <1>3
  <1>5. PageStatus(show, e, view.disk.slots) = "missing" <=> ~skip /\ to # None /\ to \notin view.disk.slots
    BY DEF PageStatus
  <1>6. DropoutAction(row, view.disk) = "download"
          <=> ~skip /\ dest # None /\ dest \notin view.disk.slots
    <2> HIDE DEF dest, skip, row
    <2> QED BY <1>2, <1>4 DEF DropoutAction
  <1>7. ~skip => dest = to BY DEF SlotOf
  <1>8. (\E a \in Queue : a.id = e) <=> DropoutAction(row, view.disk) = "download"
    <2>1. Plan(view) = {Action(r.id, DropoutAction(r, view.disk), r.dest) : r \in view.rows}
      BY <1>1 DEF Plan
    <2>2. row \in view.rows BY <1>2
    <2>3. \A r \in view.rows : r.id = e => r = row BY <1>2, <1>4, <2>2 DEF DropoutRows
    <2> HIDE DEF row
    <2>4. ASSUME DropoutAction(row, view.disk) = "download" PROVE \E a \in Queue : a.id = e
      <3> DEFINE a == Action(row.id, DropoutAction(row, view.disk), row.dest)
      <3>1. a \in Plan(view) BY <2>1, <2>2
      <3>2. a.action = "download" /\ a.id = e BY <1>4, <2>4 DEF Action
      <3> HIDE DEF a
      <3> QED BY <1>1, <3>1, <3>2 DEF Queue
    <2>5. ASSUME NEW a \in Queue, a.id = e PROVE DropoutAction(row, view.disk) = "download"
      <3>1. a \in Plan(view) /\ a.action = "download" BY <1>1 DEF Queue
      <3>2. PICK r \in view.rows : a = Action(r.id, DropoutAction(r, view.disk), r.dest)
        BY <2>1, <3>1
      <3>3. a.id = r.id /\ a.action = DropoutAction(r, view.disk) BY <3>2 DEF Action
      <3> QED BY <2>3, <2>5, <3>1, <3>3
    <2> QED BY <2>4, <2>5
  <1> HIDE DEF row, to, dest
  <1> QED BY <1>5, <1>6, <1>7, <1>8

LEMMA PlacesAsAsked ==
  ASSUME IInv, Next, job # NoJob, job' = NoJob, lib.there
  PROVE  /\ lib.slots \subseteq lib'.slots
         /\ lib'.slots \ lib.slots \subseteq {a.dest : a \in job.rows}
         /\ \A a \in job.rows : a.dest \in lib'.slots \ lib.slots /\ job.kind = "dropout" =>
                \A b \in Queue' : b.id # a.id
  <1>1. CASE Refuse BY <1>1 DEF Refuse
  <1>2. CASE Execute
    <2>1. PICK done \in SUBSET {a \in job.rows : ~Nothing /\ a.dest \notin Found.slots} :
            /\ lib' = IF Nothing THEN lib
                      ELSE [there |-> TRUE,
                            slots |-> Found.slots \cup {Target(a) : a \in done},
                            index |-> [w \in Videos |->
                                IF job.kind = "youtube" /\ \E a \in done : a.id = w
                                THEN Target(CHOOSE a \in done : a.id = w) ELSE Found.index[w]],
                            record |-> IF job.kind = "youtube" THEN LiveSeason ELSE None]
            /\ view' = Recorded(view, {a.dest : a \in done})
      BY <1>2 DEF Execute
    <2>2. \A a \in done : Target(a) = a.dest /\ a \in job.rows
      BY <1>2, TargetIsDest DEF Execute, Runs
    <2> DEFINE placed == {a.dest : a \in done}
    <2>3. lib'.slots = lib.slots \cup placed
      <3>1. CASE Nothing
        <4>1. lib' = lib /\ placed = {} BY <2>1, <3>1
        <4> QED BY <4>1
      <3>2. CASE ~Nothing
        <4>1. lib'.slots = Found.slots \cup {Target(a) : a \in done} BY <2>1, <3>2
        <4> QED BY <2>2, <4>1, FoundTypes DEF IInv
      <3> QED BY <3>1, <3>2
    <2>4. placed \subseteq {a.dest : a \in job.rows} BY <2>2
    <2>5. view \in Views(show.kind) /\ view.disk \in Inventories /\ Faithful(view)
          /\ view.kind = show.kind /\ job.kind = show.kind
      BY JobTypes, ViewTypes DEF IInv
    <2>6. view'.kind = view.kind /\ view'.rows = view.rows /\ placed \subseteq view'.disk.slots
      <3> DEFINE disk == [view.disk EXCEPT !.slots = @ \cup placed]
      <3>1. view' = [view EXCEPT !.disk = disk] BY <2>1 DEF Recorded
      <3> HIDE DEF placed
      <3>2. disk.slots = view.disk.slots \cup placed BY <2>5 DEF Inventories
      <3> HIDE DEF disk
      <3> QED BY <2>5, <3>1, <3>2 DEF Views
    <2>7. ASSUME NEW a \in job.rows, a.dest \in lib'.slots \ lib.slots, job.kind = "dropout",
                 NEW b \in Queue', b.id = a.id
          PROVE  FALSE
      <3>1. a.dest \in placed BY <2>3, <2>7
      <3>2. PICK r \in view.rows : a.id = r.id /\ a.dest = r.dest
        BY <2>5, <2>7, JobTypes, PlanTypes DEF IInv
      <3>3. b \in Plan(view') /\ b.action = "download" BY DEF Queue, Planned
      <3>4. PICK q \in view'.rows : b = Action(q.id, DropoutAction(q, view'.disk), q.dest)
        BY <2>5, <2>6, <2>7, <3>3 DEF Plan
      <3>5. b.id = q.id /\ b.action = DropoutAction(q, view'.disk) BY <3>4 DEF Action
      <3>6. q.dest \notin view'.disk.slots BY <3>3, <3>5 DEF DropoutAction
      <3>7. q = r BY <2>5, <2>6, <2>7, <3>2, <3>4, <3>5 DEF Faithful, DropoutRows
      <3> HIDE DEF placed
      <3> QED BY <2>6, <3>1, <3>2, <3>6, <3>7
    <2> QED BY <2>3, <2>4, <2>7
  <1> QED BY <1>1, <1>2
        DEF Next, Refresh, Edit, HandEdit, Post, ProviderChanges, UserFile, Mount

-----------------------------------------------------------------------------
(***************************************************************************)
(* The theorems.                                                           *)
(***************************************************************************)
LEMMA Invariance == Spec => []IInv
  BY InitInv, InvStep, PTL DEF Spec

(* Views, jobs and the library are always well formed: in particular an    *)
(* action that can be selected has a slot, whatever mapping made its row.  *)
THEOREM TypeCorrect == Spec => []TypeOK
  <1>1. IInv => TypeOK BY DEF IInv
  <1> QED BY <1>1, Invariance, PTL

(* However many edits are replanned on cached rows, these are the rows a   *)
(* refresh would make of the same listing (views.py:574).                  *)
THEOREM ReplanLikeRefresh == Spec => []ReplanAgrees
  <1>1. IInv => ReplanAgrees BY DEF IInv, ViewInv, Faithful, ReplanAgrees
  <1> QED BY <1>1, Invariance, PTL

(* The show's page calls missing exactly the episodes the queue offers.    *)
THEOREM PageLikeQueue == Spec => []PageAgrees
  BY AgreesWithPage, Invariance, PTL

(* The executor's own plan finds every selected download of a plan whose   *)
(* listing, configuration and index are unchanged (services.py:1222).      *)
THEOREM SelectionAccepted == Spec => []SelectionRuns
  BY RunsSelection, Invariance, PTL

(* A run fills selected slots only, takes nothing away, and what it placed *)
(* leaves the queue, whatever changed since the plan.                      *)
THEOREM PlacedWhereAsked == Spec => PlacedAsAsked
  <1>1. IInv /\ [Next]_vars =>
          [ job # NoJob /\ job' = NoJob /\ lib.there =>
            /\ lib.slots \subseteq lib'.slots
            /\ lib'.slots \ lib.slots \subseteq {a.dest : a \in job.rows}
            /\ \A a \in job.rows : a.dest \in lib'.slots \ lib.slots /\ job.kind = "dropout" =>
                   \A b \in Queue' : b.id # a.id ]_vars
    BY PlacesAsAsked
  <1> QED BY <1>1, Invariance, PTL DEF Spec, PlacedAsAsked

=============================================================================
