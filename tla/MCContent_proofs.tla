--------------------------- MODULE MCContent_proofs ---------------------------
(***************************************************************************)
(* The lookups of the instance screen (ContentLookup, in MCContent): every *)
(* row found by hash or manifest names the version in its file, no row     *)
(* waits for a lookup that does not run, and a cache not marked as changed *)
(* is what its file holds -- for any files, updates, failures, panics and  *)
(* numbers of batches, in every order they can end.                        *)
(***************************************************************************)
EXTENDS MCContent, TLAPS

(* Caches are functions. *)
IsFn(c) == c = [k \in DOMAIN c |-> c[k]]

(* An answer that claims a version. *)
Sure(a) == a \notin {Nothing, Miss} /\ a.by # "search"

(* The file was replaced and the result of the update is not polled yet. *)
Stale(f) == apply # Nothing /\ apply.at = "ok" /\ f \in apply.files

(* What a cache says under a hash is the version with that hash. *)
Holds(c) == /\ DOMAIN c \subseteq L!Keys
            /\ \A k \in DOMAIN c : c[k] \in L!Learnt /\ (k[1] \in L!Algorithms /\ c[k] # Miss => c[k].v = k[3])

(* Every file has a version. *)
FileOK == file \in [Files -> L!Versions]

(* A batch has a number that was given out, files, and the cache it began   *)
(* with; when done, an answer for each file and true news.                  *)
BatchOK(batch) == /\ DOMAIN batch = {"serial", "had", "c", "done", "res", "new"}
                  /\ batch.serial \in 1 .. serial
                  /\ batch.done \in BOOLEAN
                  /\ DOMAIN batch.had \subseteq Files
                  /\ batch.done => DOMAIN batch.res = DOMAIN batch.had /\ Holds(batch.new) /\ IsFn(batch.new)
                  /\ Holds(batch.c)

(* No two batches have one number. *)
Numbered == /\ serial \in Nat
            /\ \A batch \in batches : BatchOK(batch)
            /\ \A batch, d \in batches : batch.serial = d.serial => batch = d

(* An update is of files, with the focus among them. *)
ApplyOK == apply = Nothing \/ (apply \in L!Updates /\ apply.focus \subseteq apply.files)

(* A row whose latest batch runs waits. *)
Waited == \A batch \in batches : \A f \in DOMAIN batch.had : L!IsLatest(batch, f) => f \in wait

(* What is in the cache, in its file and in the saves under way is true. *)
CacheHolds == cache # Nothing => Holds(cache) /\ IsFn(cache)
StoredHolds == stored # Nothing => Holds(stored) /\ IsFn(stored)
SavesHold == \A s \in saves : Holds(s.c) /\ IsFn(s.c) /\ s.c # Nothing

(* What a row says was so before the update under way, or is so. *)
RowOK(f) == rows[f] # Miss /\ rows[f].by # "search" => rows[f].v = file[f] \/ Stale(f)
RowsOK == DOMAIN rows \subseteq Files /\ \A f \in DOMAIN rows \ kept : RowOK(f)

(* So with the answers that will be taken, but for rows an update of their  *)
(* own kept.                                                                *)
ResultOK(batch, f) == Sure(batch.res[f]) => batch.res[f].v = file[f] \/ Stale(f)
ResultsOK == \A batch \in batches : batch.done => \A f \in DOMAIN batch.res \ kept : L!IsLatest(batch, f) => ResultOK(batch, f)

(* Before the cache is loaded nothing is looked up, saved or cleared. *)
Early == cache = Nothing => batches = {} /\ saves = {} /\ stored = Nothing /\ clears = 0 /\ ~dirty

(* A save has the cache of its revision; once written it is what the file   *)
(* holds.                                                                   *)
SaveOK(s) == /\ DOMAIN s = {"rev", "c", "at"}
             /\ s.rev \in Nat /\ s.rev <= rev
             /\ s.rev = rev => s.c = cache
             /\ s.at = "ok" => stored = s.c

(* Unless a clear crossed a save, one save runs at a time, while the cache  *)
(* is marked.                                                               *)
Saving == /\ rev \in Nat /\ clears \in Nat /\ {dirty, saving, crossed} \subseteq BOOLEAN
          /\ \A s \in saves : DOMAIN s = {"rev", "c", "at"}
          /\ ~crossed => /\ saves # {} => dirty
                         /\ saves # {} <=> saving
                         /\ \A s, t \in saves : s = t
                         /\ \A s \in saves : SaveOK(s)

(* The inductive invariant, by what it is about: batches and waiting rows;  *)
(* answers and rows; the contents of caches; saves.                         *)
LookedUp == Numbered /\ Waited /\ L!NobodyWaitsInVain
Answered == FileOK /\ ApplyOK /\ RowsOK /\ ResultsOK
Truthful == CacheHolds /\ StoredHolds /\ SavesHold
Saved == Early /\ Saving /\ L!CacheIsSaved
IInv == LookedUp /\ Answered /\ Truthful /\ Saved

(* An empty cache holds nothing wrong. *)
LEMMA EmptyHolds == Holds(<<>>) /\ IsFn(<<>>)
  BY DEF Holds, IsFn

(* A cache is not the absence of one. *)
LEMMA IsThere == ASSUME NEW c, Holds(c), IsFn(c) PROVE c # Nothing
<1>1. c \in [DOMAIN c -> L!Learnt] BY DEF Holds, IsFn
<1>2. DOMAIN c \in SUBSET L!Keys BY DEF Holds
<1> QED BY <1>1, <1>2, NothingAssumption

(* apply_updates: a true cache with true news stays true. *)
LEMMA AppliedHolds ==
  ASSUME NEW c, NEW new, Holds(c), Holds(new)
  PROVE  Holds(L!Applied(c, new)) /\ IsFn(L!Applied(c, new))
  BY DEF Holds, IsFn, L!Applied, L!Algorithms

(* News without a difference change nothing. *)
LEMMA AppliedSame ==
  ASSUME NEW c, NEW new, IsFn(c), L!Changed(c, new) = <<>>
  PROVE  L!Applied(c, new) = c
<1>1. DOMAIN L!Changed(c, new) = {} BY DOMAIN <<>> = {}
<1>2. \A k \in DOMAIN new : k \in DOMAIN c /\ c[k] = new[k] BY <1>1 DEF L!Changed, L!Has
<1>3. DOMAIN L!Applied(c, new) = DOMAIN c BY <1>2 DEF L!Applied
<1>4. \A k \in DOMAIN c : L!Applied(c, new)[k] = c[k] BY <1>2 DEF L!Applied
<1>5. IsFn(L!Applied(c, new)) BY DEF L!Applied, IsFn
<1> QED BY <1>3, <1>4, <1>5 DEF IsFn

(* The differences of true answers are true. *)
LEMMA ChangedHolds ==
  ASSUME NEW c, NEW new, Holds(new) PROVE Holds(L!Changed(c, new)) /\ IsFn(L!Changed(c, new))
  BY DEF Holds, IsFn, L!Changed, L!Algorithms

(* What is recorded of a file under both hashes is true if it is a miss or  *)
(* names the file's version.                                                *)
LEMMA BothHolds ==
  ASSUME NEW f \in Files, FileOK, NEW a \in L!Learnt, a = Miss \/ a.v = file[f] PROVE Holds(L!Both(f, a))
<1>1. file[f] \in L!Versions BY DEF FileOK
<1>2. ASSUME NEW k \in DOMAIN L!Both(f, a)
      PROVE  k \in L!Keys /\ L!Both(f, a)[k] = a /\ k[3] = file[f]
  <2>1. PICK alg \in L!Algorithms : k = <<alg, f, file[f]>> BY <1>2 DEF L!Both
  <2>2. k \in L!Keys BY <2>1, <1>1 DEF L!Keys
  <2>3. L!Both(f, a)[k] = a BY <1>2 DEF L!Both
  <2>4. k[3] = file[f] BY <2>1
  <2> QED BY <2>2, <2>3, <2>4
<1> QED BY <1>2 DEF Holds

(* A file without an answer is recorded as a miss. *)
LEMMA MissHolds == ASSUME NEW f \in Files, FileOK PROVE Holds(L!Both(f, Miss))
<1>1. Miss \in L!Learnt BY DEF L!Learnt
<1> QED BY <1>1, BothHolds

(* A file with an answer is recorded with its version. *)
LEMMA FreshHolds == ASSUME NEW f \in Files, FileOK PROVE Holds(L!Both(f, L!Answer("hash", file[f], 0)))
<1>1. L!Answer("hash", file[f], 0) \in L!Learnt BY DEF L!Learnt, L!Answer, FileOK, L!Versions, L!Latest
<1>2. L!Answer("hash", file[f], 0).v = file[f] BY DEF L!Answer
<1> QED BY <1>1, <1>2, BothHolds

(* The fields of an answer. *)
LEMMA AnswerHas ==
  ASSUME NEW by, NEW v, NEW n
  PROVE  L!Answer(by, v, n).v = v /\ L!Answer(by, v, n).by = by
  BY DEF L!Answer

(* The answer, if it claims a version, names the one in the file. *)
Says(f, a) == Sure(a) => a.v = file[f]

(* What the cache has of a file's hash names the file's version. *)
LEMMA HitIsTrue ==
  ASSUME NEW f, NEW c, Holds(c), NEW alg \in L!Algorithms, L!Hit(c, <<alg, f, file[f]>>)
  PROVE  c[<<alg, f, file[f]>>].v = file[f]
  BY DEF Holds, L!Hit, L!Has

(* prefetch_modrinth_hash_updates answers with the version in the file. *)
LEMMA ByHashTrue ==
  ASSUME NEW f \in Files, FileOK, NEW c, NEW down, Holds(c)
  PROVE  Says(f, L!ByHash(f, c, down).pre) /\ Holds(L!ByHash(f, c, down).c)
<1> DEFINE v == file[f]
           known(alg) == down # alg /\ f \in Hashed /\ down # "project"
           fresh == L!Answer("hash", v, L!Offer(v, down # "latest"))
           hits == {c[<<alg, f, v>>] : alg \in {alg \in L!Algorithms : L!Hit(c, <<alg, f, v>>)}}
           hit == CHOOSE a \in hits : TRUE
           r == L!ByHash(f, c, down)
<1>0. Holds(<<>>) BY EmptyHolds
<1>1. CASE \E alg \in L!Algorithms : L!Hit(c, <<alg, f, v>>)
  <2>1. hits # {} BY <1>1
  <2>2. \A a \in hits : a.v = v BY HitIsTrue
  <2>3. hit \in hits BY <2>1
  <2>4. hit.v = v BY <2>2, <2>3
  <2>5. r = [pre |-> L!Answer("hash", hit.v, L!Offer(hit.v, down # "latest")), c |-> <<>>]
    BY <1>1 DEF L!ByHash
  <2> HIDE DEF hit, r
  <2> QED BY <1>0, <2>4, <2>5, AnswerHas DEF Says, r
<1>2. CASE ~\E alg \in L!Algorithms : L!Hit(c, <<alg, f, v>>)
  <2>1. \/ r = [pre |-> Nothing, c |-> L!Both(f, Miss)]
        \/ r = [pre |-> fresh, c |-> L!Both(f, L!Answer("hash", v, 0))]
        \/ r = [pre |-> Nothing, c |-> <<>>]
    BY <1>2 DEF L!ByHash
  <2>2. Holds(L!Both(f, Miss)) /\ Holds(L!Both(f, L!Answer("hash", v, 0))) BY MissHolds, FreshHolds
  <2>3. Says(f, Nothing) BY DEF Says, Sure
  <2>4. Says(f, fresh) BY AnswerHas DEF Says
  <2> HIDE DEF fresh, r
  <2>5. Says(f, r.pre) /\ Holds(r.c) BY <2>1, <2>2, <2>3, <2>4, <1>0
  <2> QED BY <2>5 DEF r
<1> QED BY <1>1, <1>2

(* The manifest's word counts only while it names the version in the file. *)
LEMMA ManifestTrue ==
  ASSUME NEW f, NEW had, NEW down
  PROVE  /\ Says(f, L!ByModrinthManifest(f, had, down)) /\ Says(f, L!ByCurseForgeManifest(f, had, down))
         /\ Says(f, L!ResolveManaged(f, had, down))
<1>1. Says(f, Nothing) BY DEF Says, Sure
<1>2. \A new : had = file[f] => Says(f, L!Answer("managed", had, new)) BY AnswerHas DEF Says
<1>3. Says(f, L!ByModrinthManifest(f, had, down)) BY <1>1, <1>2 DEF L!ByModrinthManifest
<1>4. Says(f, L!ByCurseForgeManifest(f, had, down)) BY <1>1, <1>2 DEF L!ByCurseForgeManifest
<1>5. Says(f, L!ResolveManaged(f, had, down)) BY <1>1, <1>2 DEF L!ResolveManaged
<1> QED BY <1>3, <1>4, <1>5

(* resolve_modrinth_hash_metadata answers with the version in the file. *)
LEMMA HashTrue ==
  ASSUME NEW f \in Files, FileOK, NEW c, NEW down, Holds(c)
  PROVE  Says(f, L!ResolveHash(f, c, down).a) /\ Holds(L!ResolveHash(f, c, down).c)
<1> DEFINE v == file[f]
           fresh == L!Answer("hash", v, L!Offer(v, down # "latest"))
           r == L!ResolveHash(f, c, down)
<1>1. \/ r = [a |-> fresh, c |-> <<>>]
      \/ r = [a |-> fresh, c |-> L!Both(f, L!Answer("hash", v, 0))]
      \/ r = [a |-> Nothing, c |-> <<>>]
      \/ r = [a |-> Nothing, c |-> L!Both(f, Miss)]
  <2> DEFINE key(alg) == <<alg, f, v>>
             found(alg) == ~L!Has(c, key(alg)) /\ down # alg /\ f \in Hashed /\ L!Up("project", f, down)
             A == \E alg \in L!Algorithms : L!Hit(c, key(alg))
             B == \E alg \in L!Algorithms : found(alg)
             F == \E alg \in L!Algorithms : ~L!Has(c, key(alg)) /\ down = alg
             ra == [a |-> fresh, c |-> <<>>]
             rb == [a |-> fresh, c |-> L!Both(f, L!Answer("hash", v, 0))]
             rt == [a |-> Nothing, c |-> <<>>]
             ro == [a |-> Nothing, c |-> L!Both(f, Miss)]
  <2>1. r = CASE A -> ra [] B -> rb [] F -> rt [] OTHER -> ro BY DEF L!ResolveHash
  <2> HIDE DEF A, B, F, ra, rb, rt, ro, r
  <2>2. r \in {ra, rb, rt, ro} BY <2>1
  <2> QED BY <2>2 DEF ra, rb, rt, ro
<1>2. Holds(L!Both(f, Miss)) /\ Holds(L!Both(f, L!Answer("hash", v, 0))) BY MissHolds, FreshHolds
<1>3. Says(f, Nothing) BY DEF Says, Sure
<1>4. Says(f, fresh) BY AnswerHas DEF Says
<1>5. Holds(<<>>) BY EmptyHolds
<1> HIDE DEF fresh, r
<1>6. Says(f, r.a) /\ Holds(r.c) BY <1>1, <1>2, <1>3, <1>4, <1>5
<1> QED BY <1>6 DEF r

(* A search by name claims no version. *)
LEMMA NameTrue ==
  ASSUME NEW f, NEW c, NEW down PROVE Says(f, L!ResolveName(f, c, down))
<1>1. Says(f, Nothing) BY DEF Says, Sure
<1>2. Says(f, L!Answer("search", 0, 0)) BY AnswerHas DEF Says, Sure
<1> QED BY <1>1, <1>2 DEF L!ResolveName

(* What is recorded under a name claims no version. *)
LEMMA NamesHold ==
  ASSUME NEW f \in Files PROVE Holds([k \in {<<"name", f>>} |-> L!Answer("search", 0, 0)])
<1>1. <<"name", f>>[1] \notin L!Algorithms BY DEF L!Algorithms
<1>2. <<"name", f>> \in L!Keys BY DEF L!Keys
<1>3. L!Answer("search", 0, 0) \in L!Learnt BY DEF L!Learnt, L!Answer, L!Latest
<1> QED BY <1>1, <1>2, <1>3 DEF Holds

(* InstalledContentResolver::resolve answers with the version in the file,  *)
(* or by a search.                                                          *)
LEMMA ResolveTrue ==
  ASSUME NEW f \in Files, FileOK, NEW c, NEW had, NEW down, Holds(c)
  PROVE  Says(f, L!Resolve(f, c, had, down).a) /\ Holds(L!Resolve(f, c, had, down).c)
<1> DEFINE hash == L!ResolveHash(f, c, down)
           entry == L!ResolveManaged(f, had, down)
           sure == IF hash.a # Nothing THEN hash.a ELSE entry
           naming == IF sure = Nothing THEN <<>> ELSE [k \in {<<"name", f>>} |-> L!Answer("search", 0, 0)]
           r == L!Resolve(f, c, had, down)
<1>1. r = [a |-> IF sure # Nothing THEN sure ELSE L!ResolveName(f, c, down), c |-> L!Applied(hash.c, naming)]
  BY DEF L!Resolve
<1>2. Says(f, hash.a) /\ Holds(hash.c) BY HashTrue
<1>3. Says(f, entry) BY ManifestTrue
<1>4. Says(f, L!ResolveName(f, c, down)) BY NameTrue
<1>5. Holds(naming) BY EmptyHolds, NamesHold
<1> HIDE DEF hash, entry, naming, r
<1>6. Holds(L!Applied(hash.c, naming)) BY <1>2, <1>5, AppliedHolds
<1>7. Says(f, r.a) /\ Holds(r.c) BY <1>1, <1>2, <1>3, <1>4, <1>6
<1> QED BY <1>7 DEF r

(* Whichever way a batch resolves a file, the answer names the file's       *)
(* version or comes of a search.                                            *)
LEMMA ResolvedTrue ==
  ASSUME NEW f \in Files, FileOK, NEW c, NEW had, NEW down, Holds(c)
  PROVE  Says(f, L!Resolved(f, c, had, down).a) /\ Holds(L!Resolved(f, c, had, down).c)
<1> DEFINE hash == L!ByHash(f, c, down)
           modrinth == L!ByModrinthManifest(f, had, down)
           early == IF hash.pre # Nothing THEN hash.pre
                    ELSE IF modrinth # Nothing THEN modrinth ELSE L!ByCurseForgeManifest(f, had, down)
           late == L!Resolve(f, L!Applied(c, hash.c), had, down)
           r == L!Resolved(f, c, had, down)
<1>1. r = IF early # Nothing THEN [a |-> early, c |-> hash.c] ELSE [a |-> late.a, c |-> L!Applied(hash.c, late.c)]
  BY DEF L!Resolved
<1>2. Says(f, hash.pre) /\ Holds(hash.c) BY ByHashTrue
<1>3. Says(f, modrinth) /\ Says(f, L!ByCurseForgeManifest(f, had, down)) BY ManifestTrue
<1>4. Says(f, early) BY <1>2, <1>3
<1>5. Holds(L!Applied(c, hash.c)) BY <1>2, AppliedHolds
<1>6. Says(f, late.a) /\ Holds(late.c) BY <1>5, ResolveTrue
<1> HIDE DEF hash, early, late, r
<1>7. Holds(L!Applied(hash.c, late.c)) BY <1>2, <1>6, AppliedHolds
<1>8. Says(f, r.a) /\ Holds(r.c) BY <1>1, <1>2, <1>4, <1>6, <1>7
<1> QED BY <1>8 DEF r

(* LookedUp reads nothing but these variables; so the next ones. *)
LEMMA LookedUpStays ==
  ASSUME LookedUp, UNCHANGED <<batches, serial, wait, newest, orphans>> PROVE LookedUp'
  BY DEF LookedUp, Numbered, BatchOK, Waited, L!NobodyWaitsInVain, L!IsLatest, Holds, IsFn

(* Answered reads nothing but these variables. *)
LEMMA AnsweredStays ==
  ASSUME Answered, UNCHANGED <<apply, rows, kept, file, batches, newest>> PROVE Answered'
  BY DEF Answered, FileOK, ApplyOK, L!Updates, RowsOK, RowOK, ResultsOK, ResultOK, Sure, Stale, L!IsLatest

(* Truthful reads nothing but these variables. *)
LEMMA TruthfulStays ==
  ASSUME Truthful, UNCHANGED <<cache, stored, saves>> PROVE Truthful'
  BY DEF Truthful, CacheHolds, StoredHolds, SavesHold, Holds, IsFn

(* Saving and CacheIsSaved read nothing but these variables. *)
LEMMA SavingStays ==
  ASSUME Saving, L!CacheIsSaved, UNCHANGED <<cache, saves, stored, clears, dirty, rev, saving, crossed>>
  PROVE  Saving' /\ L!CacheIsSaved'
  BY DEF Saving, SaveOK, L!CacheIsSaved

(* Saved reads nothing but these variables. *)
LEMMA SavedStays ==
  ASSUME Saved, UNCHANGED <<cache, batches, saves, stored, clears, dirty, rev, saving, crossed>> PROVE Saved'
<1>1. Saving' /\ L!CacheIsSaved' BY SavingStays DEF Saved
<1>2. Early' BY DEF Saved, Early
<1> QED BY <1>1, <1>2 DEF Saved

(* The invariant holds at first. *)
LEMMA StartHolds == ASSUME L!Init PROVE IInv
<1>1. LookedUp BY DEF L!Init, LookedUp, Numbered, Waited, L!NobodyWaitsInVain
<1>2. Answered BY DEF L!Init, Answered, FileOK, L!Versions, L!Latest, ApplyOK, RowsOK, ResultsOK
<1>3. Truthful BY DEF L!Init, Truthful, CacheHolds, StoredHolds, SavesHold
<1>4. Saved BY DEF L!Init, Saved, Early, Saving, L!CacheIsSaved
<1> QED BY <1>1, <1>2, <1>3, <1>4 DEF IInv

(* Scans and the passing of time touch nothing of the invariant. *)
LEMMA QuietHolds ==
  ASSUME IInv, UNCHANGED <<file, rows, wait, newest, serial, L!cacheVars, L!diskVars, batches, apply, kept,
                           crossed, orphans>>
  PROVE  IInv'
<1>1. LookedUp' BY LookedUpStays DEF IInv
<1>2. Answered' BY AnsweredStays DEF IInv
<1>3. Truthful' BY TruthfulStays DEF IInv, L!cacheVars, L!diskVars
<1>4. Saved' BY SavedStays DEF IInv, L!cacheVars, L!diskVars
<1> QED BY <1>1, <1>2, <1>3, <1>4 DEF IInv

(* The cache is loaded; before, nothing was looked up, saved or cleared. *)
LEMMA LoadHolds == ASSUME IInv, L!PollLoad PROVE IInv'
<1>1. LookedUp' BY LookedUpStays DEF IInv, L!PollLoad, L!rowVars
<1>2. Answered' BY AnsweredStays DEF IInv, L!PollLoad, L!rowVars
<1>3. Truthful'
  <2>1. CacheHolds' BY EmptyHolds DEF IInv, Truthful, CacheHolds, StoredHolds, L!PollLoad, Holds, IsFn
  <2>2. StoredHolds' /\ SavesHold' BY DEF IInv, Truthful, StoredHolds, SavesHold, L!PollLoad, L!diskVars, Holds, IsFn
  <2> QED BY <2>1, <2>2 DEF Truthful
<1>4. CASE cache # Nothing
  <2>1. Saved' BY <1>4, SavedStays DEF IInv, L!PollLoad, L!diskVars
  <2> QED BY <1>1, <1>2, <1>3, <2>1 DEF IInv
<1>5. CASE cache = Nothing
  <2>1. batches = {} /\ saves = {} /\ stored = Nothing /\ clears = 0 /\ ~dirty BY <1>5 DEF IInv, Saved, Early
  <2>2. cache' = <<>> BY <1>5, <2>1 DEF L!PollLoad
  <2>3. Early' BY <2>1, <2>2 DEF Early, L!PollLoad, L!diskVars
  <2>4. Saving' BY <2>1 DEF IInv, Saved, Saving, L!PollLoad, L!diskVars
  <2>5. L!CacheIsSaved' BY <2>1, <2>2 DEF L!CacheIsSaved, L!PollLoad, L!diskVars
  <2> QED BY <1>1, <1>2, <1>3, <2>3, <2>4, <2>5 DEF IInv, Saved
<1> QED BY <1>4, <1>5

(* A save begins: the only one, of the cache as it is. *)
LEMMA FlushHolds == ASSUME IInv, L!Flush PROVE IInv'
<1>1. LookedUp' BY LookedUpStays DEF IInv, L!Flush, L!rowVars
<1>2. Answered' BY AnsweredStays DEF IInv, L!Flush, L!rowVars
<1>3. Truthful' BY DEF IInv, Truthful, CacheHolds, StoredHolds, SavesHold, L!Flush, Holds, IsFn
<1> DEFINE new == [rev |-> rev, c |-> cache, at |-> "write"]
<1>4. saves' = saves \cup {new} /\ saving' /\ dirty /\ ~saving /\ cache # Nothing BY DEF L!Flush
<1>5. UNCHANGED <<cache, dirty, rev, clears, stored, batches, crossed>> BY DEF L!Flush
<1>6. DOMAIN new = {"rev", "c", "at"} /\ new.rev = rev /\ new.c = cache /\ new.at = "write" OBVIOUS
<1>7. Saving BY DEF IInv, Saved
<1>8. Saving'
  <2>1. \A s \in saves' : DOMAIN s = {"rev", "c", "at"} BY <1>4, <1>6, <1>7 DEF Saving
  <2>2. ASSUME ~crossed PROVE saves = {} BY <2>2, <1>4, <1>7 DEF Saving
  <2>3. ASSUME ~crossed, NEW s \in saves' PROVE s = new /\ SaveOK(s)'
    <3>1. s = new BY <2>2, <2>3, <1>4
    <3> QED BY <3>1, <1>5, <1>6, <1>7 DEF SaveOK, Saving
  <2> QED BY <1>4, <1>5, <1>7, <2>1, <2>3 DEF Saving
<1>9. Early' /\ L!CacheIsSaved' BY <1>4, <1>5 DEF Early, L!CacheIsSaved
<1> QED BY <1>1, <1>2, <1>3, <1>8, <1>9 DEF IInv, Saved

(* The file is written, or not. *)
LEMMA WriteHolds == ASSUME IInv, NEW s \in saves, L!WriteCache(s) PROVE IInv'
<1>1. LookedUp' BY LookedUpStays DEF IInv, L!WriteCache, L!rowVars
<1>2. Answered' BY AnsweredStays DEF IInv, L!WriteCache, L!rowVars
<1>3. DOMAIN s = {"rev", "c", "at"} BY DEF IInv, Saved, Saving
<1>4. PICK e \in {"ok", "failed"} :
        saves' = (saves \ {s}) \cup {[s EXCEPT !.at = e]} /\ stored' = (IF e = "ok" THEN s.c ELSE stored)
  BY DEF L!WriteCache
<1>5. UNCHANGED <<cache, dirty, rev, saving, clears, batches, crossed>> BY DEF L!WriteCache, L!cacheVars
<1> DEFINE new == [s EXCEPT !.at = e]
<1>6. DOMAIN new = {"rev", "c", "at"} /\ new.rev = s.rev /\ new.c = s.c /\ new.at = e BY <1>3
<1>7. saves' = (saves \ {s}) \cup {new} BY <1>4
<1> HIDE DEF new
<1>8. Holds(s.c) /\ IsFn(s.c) /\ s.c # Nothing BY DEF IInv, Truthful, SavesHold
<1>9. Truthful'
  <2>1. CacheHolds' BY <1>5 DEF IInv, Truthful, CacheHolds, Holds, IsFn
  <2>2. stored' = s.c \/ stored' = stored BY <1>4
  <2>3. StoredHolds' BY <2>2, <1>8 DEF IInv, Truthful, StoredHolds, Holds, IsFn
  <2>4. ASSUME NEW t \in saves' PROVE Holds(t.c) /\ IsFn(t.c) /\ t.c # Nothing
    BY <1>6, <1>7, <1>8 DEF IInv, Truthful, SavesHold
  <2>5. SavesHold' BY <2>4 DEF SavesHold, Holds, IsFn
  <2> QED BY <2>1, <2>3, <2>5 DEF Truthful
<1>10. Saving BY DEF IInv, Saved
<1>11. Early' BY <1>5 DEF IInv, Saved, Early
<1>12. ASSUME ~crossed PROVE saves = {s} /\ dirty /\ saving /\ SaveOK(s) BY <1>10, <1>12 DEF Saving
<1>13. Saving'
  <2>1. \A t \in saves' : DOMAIN t = {"rev", "c", "at"} BY <1>6, <1>7, <1>10 DEF Saving
  <2>2. ASSUME ~crossed PROVE saves' = {new} BY <2>2, <1>12, <1>7
  <2>3. ASSUME ~crossed PROVE SaveOK(new)'
    <3>1. SaveOK(s) BY <1>12, <2>3
    <3>2. new.rev \in Nat /\ new.rev <= rev /\ (new.rev = rev => new.c = cache) BY <3>1, <1>6 DEF SaveOK
    <3>3. new.at = "ok" => stored' = new.c BY <1>4, <1>6
    <3>4. DOMAIN new = {"rev", "c", "at"} BY <1>6
    <3>5. rev' = rev /\ cache' = cache BY <1>5
    <3> HIDE DEF new
    <3> QED BY <3>2, <3>3, <3>4, <3>5 DEF SaveOK, new
  <2>4. ASSUME ~crossed, NEW t \in saves' PROVE SaveOK(t)'
    <3>1. t = new BY <2>2, <2>4
    <3>2. new' = new BY DEF new
    <3> QED BY <2>3, <2>4, <3>1
  <2> QED BY <1>5, <1>10, <1>12, <2>1, <2>2, <2>4 DEF Saving
<1>14. L!CacheIsSaved'
  <2>1. ASSUME ~crossed PROVE dirty' BY <1>12, <1>5, <2>1
  <2> QED BY <2>1, <1>5 DEF L!CacheIsSaved
<1> QED BY <1>1, <1>2, <1>9, <1>11, <1>13, <1>14 DEF IInv, Saved

(* A save ends: the mark goes only if nothing changed since it began, and   *)
(* then the file is the cache.                                              *)
LEMMA PollSaveHolds == ASSUME IInv, NEW s \in saves, L!PollSave(s) PROVE IInv'
<1>1. LookedUp' BY LookedUpStays DEF IInv, L!PollSave, L!rowVars
<1>2. Answered' BY AnsweredStays DEF IInv, L!PollSave, L!rowVars
<1>3. saves' = saves \ {s} /\ saving' = FALSE /\ dirty' = L!StillDirty(s) BY DEF L!PollSave
<1>4. UNCHANGED <<cache, rev, clears, stored, batches, crossed>> BY DEF L!PollSave
<1>5. Truthful' BY <1>3, <1>4 DEF IInv, Truthful, CacheHolds, StoredHolds, SavesHold, Holds, IsFn
<1>6. Saving /\ Early BY DEF IInv, Saved
<1>7. ASSUME ~crossed PROVE saves = {s} /\ dirty /\ saving /\ SaveOK(s) BY <1>6, <1>7 DEF Saving
<1>8. L!StillDirty(s) \in BOOLEAN /\ (L!StillDirty(s) => dirty) BY <1>6 DEF L!StillDirty, Saving
<1>9. Early' BY <1>3, <1>4, <1>6, <1>8 DEF Early
<1>10. Saving'
  <2>1. ASSUME ~crossed PROVE saves' = {} BY <1>3, <1>7, <2>1
  <2> QED BY <1>3, <1>4, <1>6, <1>8, <2>1 DEF Saving
<1>11. L!CacheIsSaved'
  <2> SUFFICES ASSUME cache # Nothing, ~dirty', clears = 0, ~crossed
               PROVE  stored \in {cache, Nothing} /\ (stored = Nothing => cache = <<>>)
    BY <1>4 DEF L!CacheIsSaved
  <2>1. SaveOK(s) /\ dirty BY <1>7
  <2>2. s.at = "ok" /\ s.rev = rev BY <2>1, <1>3 DEF L!StillDirty
  <2>3. stored = cache BY <2>1, <2>2 DEF SaveOK
  <2> QED BY <2>3
<1> QED BY <1>1, <1>2, <1>5, <1>9, <1>10, <1>11 DEF IInv, Saved

(* The file is deleted: nothing was changed since, or the behaviour counts  *)
(* as crossed.                                                              *)
LEMMA ClearDiskHolds == ASSUME IInv, L!ClearDisk PROVE IInv'
<1>1. LookedUp' BY LookedUpStays DEF IInv, L!ClearDisk, L!rowVars
<1>2. Answered' BY AnsweredStays DEF IInv, L!ClearDisk, L!rowVars
<1>3. clears > 0 /\ clears' = clears - 1 /\ stored' = Nothing BY DEF L!ClearDisk
<1>4. crossed' = (crossed \/ dirty \/ saves # {} \/ clears > 1 \/ cache # <<>>) BY DEF L!ClearDisk
<1>5. UNCHANGED <<cache, dirty, rev, saving, saves, batches>> BY DEF L!ClearDisk, L!cacheVars
<1>6. Truthful' BY <1>3, <1>5 DEF IInv, Truthful, CacheHolds, StoredHolds, SavesHold, Holds, IsFn
<1>7. Saving /\ Early BY DEF IInv, Saved
<1>8. cache # Nothing BY <1>3, <1>7 DEF Early
<1>9. Early' BY <1>5, <1>8 DEF Early
<1>10. ASSUME ~crossed' PROVE ~crossed /\ saves = {} /\ ~saving /\ ~dirty /\ cache = <<>>
  BY <1>4, <1>7, <1>10 DEF Saving
<1>11. clears' \in Nat BY <1>3, <1>7 DEF Saving
<1>12. Saving' BY <1>4, <1>5, <1>7, <1>10, <1>11 DEF Saving
<1>13. L!CacheIsSaved' BY <1>3, <1>5, <1>10 DEF L!CacheIsSaved
<1> QED BY <1>1, <1>2, <1>6, <1>9, <1>12, <1>13 DEF IInv, Saved

(* A lookup is asked for: its rows wait for its number, which no batch had. *)
LEMMA RequestHolds == ASSUME IInv, L!Request PROVE IInv'
<1> DEFINE fs == {f \in Files : L!ShouldRequest(f)}
           new == [serial |-> serial + 1, had |-> [f \in fs |-> listed[f]], c |-> cache,
                   done |-> FALSE, res |-> <<>>, new |-> <<>>]
<1>1. /\ listed # Nothing /\ cache # Nothing
      /\ wait' = wait \cup fs /\ serial' = serial + 1
      /\ newest' = L!Applied(newest, [f \in fs |-> serial + 1])
      /\ batches' = batches \cup {new}
  BY DEF L!Request
<1>2. UNCHANGED <<file, cache, dirty, rev, saving, saves, clears, stored, rows, apply, kept, crossed, orphans>>
  BY DEF L!Request, L!cacheVars, L!diskVars
<1>3. /\ DOMAIN new = {"serial", "had", "c", "done", "res", "new"} /\ new.serial = serial + 1
      /\ DOMAIN new.had = fs /\ new.c = cache /\ new.done = FALSE
  OBVIOUS
<1>4. fs \cap wait = {} BY DEF L!ShouldRequest
<1>5. /\ DOMAIN newest' = DOMAIN newest \cup fs
      /\ \A f \in DOMAIN newest' : newest'[f] = IF f \in fs THEN serial + 1 ELSE newest[f]
  BY <1>1 DEF L!Applied
<1> HIDE DEF fs, new
<1>6. Numbered /\ Waited /\ L!NobodyWaitsInVain BY DEF IInv, LookedUp
<1>7. serial \in Nat /\ serial' \in Nat BY <1>1, <1>6 DEF Numbered
<1>8. \A batch \in batches : batch.serial \in 1 .. serial BY <1>6 DEF Numbered, BatchOK
<1>9. Holds(cache) BY <1>1 DEF IInv, Truthful, CacheHolds
<1>10. Numbered'
  <2>1. ASSUME NEW batch \in batches' PROVE BatchOK(batch)'
    <3>1. CASE batch \in batches
      <4>1. BatchOK(batch) BY <1>6, <3>1 DEF Numbered
      <4>2. batch.serial \in 1 .. serial' BY <4>1, <1>1, <1>7 DEF BatchOK
      <4> QED BY <4>1, <4>2 DEF BatchOK, Holds, IsFn
    <3>2. CASE batch = new
      <4>1. batch.serial \in 1 .. serial' BY <3>2, <1>1, <1>3, <1>7
      <4>2. fs \subseteq Files BY DEF fs
      <4> QED BY <3>2, <4>1, <4>2, <1>3, <1>9 DEF BatchOK, Holds, IsFn
    <3> QED BY <1>1, <3>1, <3>2
  <2>2. ASSUME NEW batch \in batches', NEW d \in batches', batch.serial = d.serial PROVE batch = d
    <3>1. CASE batch \in batches /\ d \in batches BY <3>1, <2>2, <1>6 DEF Numbered
    <3>2. CASE batch \in batches /\ d = new BY <3>2, <2>2, <1>3, <1>7, <1>8
    <3>3. CASE batch = new /\ d \in batches BY <3>3, <2>2, <1>3, <1>7, <1>8
    <3>4. CASE batch = new /\ d = new BY <3>4
    <3> QED BY <1>1, <3>1, <3>2, <3>3, <3>4
  <2> QED BY <1>7, <2>1, <2>2 DEF Numbered
<1>11. ASSUME NEW batch \in batches, NEW f, L!IsLatest(batch, f)' PROVE L!IsLatest(batch, f) /\ f \notin fs
  BY <1>5, <1>7, <1>8, <1>11 DEF L!IsLatest
<1>12. ASSUME NEW f \in fs PROVE f \in wait' /\ \A batch : batch.serial = serial + 1 => L!IsLatest(batch, f)'
  <2>1. f \in DOMAIN newest' /\ newest'[f] = serial + 1 BY <1>5
  <2>2. f \in wait' BY <1>1
  <2> QED BY <2>1, <2>2 DEF L!IsLatest
<1>13. Waited'
  <2>1. ASSUME NEW batch \in batches', NEW f \in DOMAIN batch.had, L!IsLatest(batch, f)' PROVE f \in wait'
    <3>1. CASE batch \in batches BY <3>1, <2>1, <1>1, <1>6, <1>11 DEF Waited
    <3>2. CASE batch = new BY <3>2, <2>1, <1>3, <1>12
    <3> QED BY <1>1, <3>1, <3>2
  <2> QED BY <2>1 DEF Waited
<1>14. L!NobodyWaitsInVain'
  <2> SUFFICES ASSUME NEW f \in wait'
               PROVE  \/ \E batch \in batches' : f \in DOMAIN batch.had /\ L!IsLatest(batch, f)'
                      \/ \E s \in 1 .. serial' : <<f, s>> \in orphans' /\ f \in DOMAIN newest' /\ newest'[f] = s
    BY DEF L!NobodyWaitsInVain
  <2>1. CASE f \in fs
    <3>1. PICK batch : batch = new OBVIOUS
    <3>2. batch \in batches' /\ f \in DOMAIN batch.had /\ batch.serial = serial + 1 BY <1>1, <1>3, <2>1, <3>1
    <3> QED BY <3>2, <2>1, <1>12
  <2>2. CASE f \notin fs
    <3>1. f \in wait BY <2>2, <1>1
    <3>2. ASSUME NEW batch \in batches, f \in DOMAIN batch.had, L!IsLatest(batch, f)
          PROVE  batch \in batches' /\ L!IsLatest(batch, f)'
      BY <3>2, <2>2, <1>1, <1>5 DEF L!IsLatest
    <3>3. ASSUME NEW s \in 1 .. serial, <<f, s>> \in orphans, f \in DOMAIN newest, newest[f] = s
          PROVE  s \in 1 .. serial' /\ <<f, s>> \in orphans' /\ f \in DOMAIN newest' /\ newest'[f] = s
      BY <3>3, <2>2, <1>1, <1>2, <1>5, <1>7
    <3> QED BY <3>1, <3>2, <3>3, <1>6 DEF L!NobodyWaitsInVain
  <2> QED BY <2>1, <2>2
<1>15. Answered'
  <2>1. FileOK' /\ ApplyOK' /\ RowsOK'
    BY <1>2 DEF IInv, Answered, FileOK, ApplyOK, L!Updates, RowsOK, RowOK, Sure, Stale
  <2>2. ASSUME NEW batch \in batches', batch.done, NEW f \in DOMAIN batch.res \ kept, L!IsLatest(batch, f)' PROVE ResultOK(batch, f)'
    <3>1. batch \in batches BY <1>1, <1>3, <2>2
    <3>2. ResultOK(batch, f) BY <3>1, <2>2, <1>11 DEF IInv, Answered, ResultsOK
    <3> QED BY <3>2, <1>2 DEF ResultOK, Sure, Stale
  <2>3. ResultsOK' BY <2>2, <1>2 DEF ResultsOK
  <2> QED BY <2>1, <2>3 DEF Answered
<1>16. Truthful' BY <1>2, TruthfulStays DEF IInv
<1>17. Saving' /\ L!CacheIsSaved' BY <1>2, SavingStays DEF IInv, Saved
<1>18. Early' BY <1>1, <1>2 DEF Early
<1> QED BY <1>10, <1>13, <1>14, <1>15, <1>16, <1>17, <1>18 DEF IInv, LookedUp, Saved

(* A batch is worked on: it keeps its number and its files, and its answers *)
(* are true.                                                                *)
LEMMA WorkHolds ==
  ASSUME IInv, NEW batch \in batches, NEW down, L!Work(batch, down) PROVE IInv'
<1> DEFINE fs == DOMAIN batch.had
           r == [f \in fs |-> L!Resolved(f, batch.c, batch.had[f], down)]
           all == [k \in UNION {DOMAIN r[f].c : f \in fs} |->
                     r[CHOOSE f \in fs : k \in DOMAIN r[f].c].c[k]]
           res == [f \in fs |-> r[f].a]
           diff == L!Changed(batch.c, all)
           new == [batch EXCEPT !.done = TRUE, !.res = res, !.new = diff]
<1>1. ~batch.done /\ batches' = (batches \ {batch}) \cup {new} BY DEF L!Work
<1>2. UNCHANGED <<file, cache, dirty, rev, saving, saves, clears, stored, rows, wait, newest, serial, apply, kept,
                  crossed, orphans>>
  BY DEF L!Work, L!cacheVars, L!diskVars, L!rowVars
<1>3. Numbered /\ Waited /\ L!NobodyWaitsInVain BY DEF IInv, LookedUp
<1>4. BatchOK(batch) BY <1>3 DEF Numbered
<1>5. \A f \in fs : Says(f, r[f].a) /\ Holds(r[f].c)
  <2>1. fs \subseteq Files /\ Holds(batch.c) /\ FileOK BY <1>4 DEF BatchOK, IInv, Answered
  <2> QED BY <2>1, ResolvedTrue
<1>6. DOMAIN res = fs /\ \A f \in fs : Says(f, res[f]) BY <1>5
<1>7. Holds(all)
  <2> SUFFICES ASSUME NEW k \in DOMAIN all
               PROVE  k \in L!Keys /\ all[k] \in L!Learnt /\ (k[1] \in L!Algorithms /\ all[k] # Miss => all[k].v = k[3])
    BY DEF Holds
  <2> DEFINE g == CHOOSE f \in fs : k \in DOMAIN r[f].c
  <2>1. \E f \in fs : k \in DOMAIN r[f].c OBVIOUS
  <2>2. g \in fs /\ k \in DOMAIN r[g].c BY <2>1
  <2>3. all[k] = r[g].c[k] OBVIOUS
  <2> HIDE DEF g, r, all
  <2>4. Holds(r[g].c) BY <2>2, <1>5
  <2> QED BY <2>2, <2>3, <2>4 DEF Holds
<1> HIDE DEF r, all, res
<1>8. Holds(diff) /\ IsFn(diff) BY <1>7, ChangedHolds
<1> HIDE DEF diff
<1>9. /\ DOMAIN new = {"serial", "had", "c", "done", "res", "new"} /\ new.serial = batch.serial /\ new.had = batch.had
      /\ new.c = batch.c /\ new.done = TRUE /\ new.res = res /\ new.new = diff
  BY <1>4 DEF BatchOK
<1> HIDE DEF new
<1>10. Numbered'
  <2>1. ASSUME NEW d \in batches' PROVE BatchOK(d)'
    <3>1. CASE d \in batches
      <4>1. BatchOK(d) BY <1>3, <3>1 DEF Numbered
      <4> QED BY <4>1, <1>2 DEF BatchOK, Holds, IsFn
    <3>2. CASE d = new
      <4>1. batch.serial \in 1 .. serial /\ Holds(batch.c) /\ DOMAIN batch.had \subseteq Files BY <1>4 DEF BatchOK
      <4>2. BatchOK(d) BY <3>2, <4>1, <1>6, <1>8, <1>9 DEF BatchOK
      <4> QED BY <4>2, <1>2 DEF BatchOK, Holds, IsFn
    <3> QED BY <1>1, <3>1, <3>2
  <2>2. ASSUME NEW d \in batches', NEW e \in batches', d.serial = e.serial PROVE d = e
    <3>1. CASE d \in batches \ {batch} /\ e \in batches \ {batch} BY <3>1, <2>2, <1>3 DEF Numbered
    <3>2. CASE d \in batches \ {batch} /\ e = new BY <3>2, <2>2, <1>3, <1>9 DEF Numbered
    <3>3. CASE d = new /\ e \in batches \ {batch} BY <3>3, <2>2, <1>3, <1>9 DEF Numbered
    <3>4. CASE d = new /\ e = new BY <3>4
    <3> QED BY <1>1, <3>1, <3>2, <3>3, <3>4
  <2> QED BY <1>2, <1>3, <2>1, <2>2 DEF Numbered
<1>11. \A d, f : L!IsLatest(d, f)' <=> L!IsLatest(d, f) BY <1>2 DEF L!IsLatest
<1>12. \A f : L!IsLatest(new, f) <=> L!IsLatest(batch, f) BY <1>9 DEF L!IsLatest
<1>13. Waited'
  <2>1. ASSUME NEW d \in batches', NEW f \in DOMAIN d.had, L!IsLatest(d, f) PROVE f \in wait
    <3>1. CASE d \in batches BY <3>1, <2>1, <1>3 DEF Waited
    <3>2. CASE d = new BY <3>2, <2>1, <1>3, <1>9, <1>12 DEF Waited
    <3> QED BY <1>1, <3>1, <3>2
  <2> QED BY <2>1, <1>2, <1>11 DEF Waited
<1>14. L!NobodyWaitsInVain'
  <2> SUFFICES ASSUME NEW f \in wait
               PROVE  \/ \E d \in batches' : f \in DOMAIN d.had /\ L!IsLatest(d, f)
                      \/ \E s \in 1 .. serial : <<f, s>> \in orphans /\ f \in DOMAIN newest /\ newest[f] = s
    BY <1>2, <1>11 DEF L!NobodyWaitsInVain
  <2>1. ASSUME NEW d \in batches, f \in DOMAIN d.had, L!IsLatest(d, f)
        PROVE  \E e \in batches' : f \in DOMAIN e.had /\ L!IsLatest(e, f)
    <3>1. CASE d = batch
      <4>1. new \in batches' BY <1>1
      <4> QED BY <4>1, <3>1, <2>1, <1>9, <1>12
    <3>2. CASE d # batch BY <3>2, <2>1, <1>1
    <3> QED BY <3>1, <3>2
  <2> QED BY <2>1, <1>3 DEF L!NobodyWaitsInVain
<1>15. Answered'
  <2>1. FileOK' /\ ApplyOK' /\ RowsOK'
    BY <1>2 DEF IInv, Answered, FileOK, ApplyOK, L!Updates, RowsOK, RowOK, Sure, Stale
  <2>2. ASSUME NEW d \in batches', d.done, NEW f \in DOMAIN d.res \ kept, L!IsLatest(d, f) PROVE ResultOK(d, f)
    <3>1. CASE d \in batches BY <3>1, <2>2 DEF IInv, Answered, ResultsOK
    <3>2. CASE d = new BY <3>2, <2>2, <1>6, <1>9 DEF ResultOK, Says
    <3> QED BY <1>1, <3>1, <3>2
  <2>3. ResultsOK' BY <2>2, <1>2, <1>11 DEF ResultsOK, ResultOK, Sure, Stale
  <2> QED BY <2>1, <2>3 DEF Answered
<1>16. Truthful' BY <1>2, TruthfulStays DEF IInv
<1>17. Saving' /\ L!CacheIsSaved' BY <1>2, SavingStays DEF IInv, Saved
<1>18. Early' BY <1>2 DEF IInv, Saved, Early
<1> QED BY <1>10, <1>13, <1>14, <1>15, <1>16, <1>17, <1>18 DEF IInv, LookedUp, Saved

(* A worker panics: the rows that waited for it are known to. *)
LEMMA PanicHolds ==
  ASSUME IInv, NEW batch \in batches, L!Panic(batch) PROVE IInv'
<1>1. batches' = batches \ {batch} /\ orphans' = orphans \cup {<<f, batch.serial>> : f \in DOMAIN batch.had} BY DEF L!Panic
<1>2. UNCHANGED <<file, cache, dirty, rev, saving, saves, clears, stored, rows, wait, newest, serial, apply, kept,
                  crossed>>
  BY DEF L!Panic, L!cacheVars, L!diskVars, L!rowVars
<1>3. Numbered /\ Waited /\ L!NobodyWaitsInVain BY DEF IInv, LookedUp
<1>4. Numbered' BY <1>1, <1>2, <1>3 DEF Numbered, BatchOK, Holds, IsFn
<1>5. Waited' BY <1>1, <1>2, <1>3 DEF Waited, L!IsLatest
<1>6. L!NobodyWaitsInVain'
  <2> SUFFICES ASSUME NEW f \in wait
               PROVE  \/ \E d \in batches' : f \in DOMAIN d.had /\ L!IsLatest(d, f)
                      \/ \E s \in 1 .. serial : <<f, s>> \in orphans' /\ f \in DOMAIN newest /\ newest[f] = s
    BY <1>2 DEF L!NobodyWaitsInVain, L!IsLatest
  <2>1. CASE f \in DOMAIN batch.had /\ L!IsLatest(batch, f)
    <3>1. batch.serial \in 1 .. serial BY <1>3 DEF Numbered, BatchOK
    <3>2. <<f, batch.serial>> \in orphans' BY <1>1, <2>1
    <3> QED BY <2>1, <3>1, <3>2 DEF L!IsLatest
  <2>2. CASE ~(f \in DOMAIN batch.had /\ L!IsLatest(batch, f)) BY <2>2, <1>1, <1>3 DEF L!NobodyWaitsInVain
  <2> QED BY <2>1, <2>2
<1>7. Answered'
  <2>1. FileOK' /\ ApplyOK' /\ RowsOK'
    BY <1>2 DEF IInv, Answered, FileOK, ApplyOK, L!Updates, RowsOK, RowOK, Sure, Stale
  <2>2. ResultsOK' BY <1>1, <1>2 DEF IInv, Answered, ResultsOK, ResultOK, L!IsLatest, Sure, Stale
  <2> QED BY <2>1, <2>2 DEF Answered
<1>8. Truthful' BY <1>2, TruthfulStays DEF IInv
<1>9. Saving' /\ L!CacheIsSaved' BY <1>2, SavingStays DEF IInv, Saved
<1>10. Early' BY <1>1, <1>2 DEF IInv, Saved, Early
<1> QED BY <1>4, <1>5, <1>6, <1>7, <1>8, <1>9, <1>10 DEF IInv, LookedUp, Saved

(* A batch is polled: its rows stop waiting, no other batch was the latest  *)
(* for them, what it says of a file is still so unless the file is Stale,   *)
(* and news mark the cache.                                                 *)
LEMMA PollHolds ==
  ASSUME IInv, NEW batch \in batches, L!Poll(batch) PROVE IInv'
<1> DEFINE mine == {f \in DOMAIN batch.res : L!IsLatest(batch, f)}
           found == {f \in mine : batch.res[f] # Nothing}
<1>1. cache # Nothing BY DEF IInv, Saved, Early
<1>2. batch.done /\ batches' = batches \ {batch} BY DEF L!Poll
<1>3. /\ cache' = L!Applied(cache, batch.new)
      /\ IF L!Changed(cache, batch.new) = <<>> THEN UNCHANGED <<dirty, rev>> ELSE dirty' = TRUE /\ rev' = rev + 1
  BY <1>1 DEF L!Poll
<1>4. /\ wait' = wait \ mine
      /\ rows' = L!Applied([f \in (mine \ found) |-> Miss], L!Applied(rows, [f \in found |-> batch.res[f]]))
  BY DEF L!Poll
<1>5. UNCHANGED <<file, saving, saves, clears, stored, newest, serial, apply, kept, crossed, orphans>>
  BY DEF L!Poll, L!diskVars
<1>6. found \subseteq mine /\ \A f : f \in mine <=> f \in DOMAIN batch.res /\ L!IsLatest(batch, f) OBVIOUS
<1>7. /\ DOMAIN rows' = (mine \ found) \cup DOMAIN rows \cup found
      /\ \A f \in DOMAIN rows' : rows'[f] = IF f \in found THEN batch.res[f]
                                          ELSE IF f \in DOMAIN rows THEN rows[f] ELSE Miss
  BY <1>4 DEF L!Applied
<1> HIDE DEF mine, found
<1>8. Numbered /\ Waited /\ L!NobodyWaitsInVain BY DEF IInv, LookedUp
<1>9. BatchOK(batch) BY <1>8 DEF Numbered
<1>10. DOMAIN batch.res = DOMAIN batch.had /\ Holds(batch.new) /\ IsFn(batch.new) BY <1>2, <1>9 DEF BatchOK
<1>11. Numbered' BY <1>2, <1>5, <1>8 DEF Numbered, BatchOK, Holds, IsFn
<1>12. ASSUME NEW d \in batches', NEW f, L!IsLatest(d, f) PROVE f \notin mine
  <2> SUFFICES ASSUME f \in mine PROVE FALSE OBVIOUS
  <2>1. d.serial = batch.serial BY <1>6, <1>12 DEF L!IsLatest
  <2>2. d = batch BY <2>1, <1>2, <1>8 DEF Numbered
  <2> QED BY <2>2, <1>2
<1>13. Waited'
  <2>1. ASSUME NEW d \in batches', NEW f \in DOMAIN d.had, L!IsLatest(d, f) PROVE f \in wait'
    <3>1. f \in wait BY <2>1, <1>2, <1>8 DEF Waited
    <3>2. f \notin mine BY <2>1, <1>12
    <3> QED BY <3>1, <3>2, <1>4
  <2> QED BY <2>1, <1>5 DEF Waited, L!IsLatest
<1>14. L!NobodyWaitsInVain'
  <2> SUFFICES ASSUME NEW f \in wait'
               PROVE  \/ \E d \in batches' : f \in DOMAIN d.had /\ L!IsLatest(d, f)
                      \/ \E s \in 1 .. serial : <<f, s>> \in orphans /\ f \in DOMAIN newest /\ newest[f] = s
    BY <1>5 DEF L!NobodyWaitsInVain, L!IsLatest
  <2>1. f \in wait /\ f \notin mine BY <1>4
  <2>2. ~(f \in DOMAIN batch.had /\ L!IsLatest(batch, f)) BY <2>1, <1>6, <1>10
  <2>3. \A d \in batches : f \in DOMAIN d.had /\ L!IsLatest(d, f) => d \in batches' BY <2>2, <1>2
  <2> QED BY <2>1, <2>3, <1>8 DEF L!NobodyWaitsInVain
<1>15. Answered'
  <2>1. FileOK' /\ ApplyOK' BY <1>5 DEF IInv, Answered, FileOK, ApplyOK, L!Updates
  <2>2. ResultsOK' BY <1>2, <1>5 DEF IInv, Answered, ResultsOK, ResultOK, L!IsLatest, Sure, Stale
  <2>3. ASSUME NEW f \in DOMAIN rows' \ kept, NEW a, a = rows'[f], a # Miss, a.by # "search"
        PROVE  a.v = file[f] \/ Stale(f)
    <3>1. CASE f \in found
      <4>1. a = batch.res[f] BY <3>1, <2>3, <1>7
      <4>2. f \in DOMAIN batch.res \ kept /\ L!IsLatest(batch, f) BY <3>1, <2>3, <1>6
      <4>3. ResultOK(batch, f) BY <4>2, <1>2 DEF IInv, Answered, ResultsOK
      <4>4. Sure(a) BY <3>1, <4>1, <2>3 DEF found, Sure
      <4> QED BY <4>1, <4>3, <4>4 DEF ResultOK
    <3>2. CASE f \notin found
      <4>2. f \in DOMAIN rows /\ a = rows[f] BY <3>2, <2>3, <1>7
      <4>3. RowOK(f) BY <4>2, <2>3 DEF IInv, Answered, RowsOK
      <4> QED BY <4>2, <4>3, <2>3 DEF RowOK
    <3> QED BY <3>1, <3>2
  <2>4. RowsOK'
    <3>1. DOMAIN rows \subseteq Files /\ mine \subseteq Files
      BY <1>6, <1>9, <1>10 DEF IInv, Answered, RowsOK, BatchOK
    <3>2. DOMAIN rows' \subseteq Files BY <3>1, <1>6, <1>7
    <3> QED BY <2>3, <3>2, <1>5 DEF RowsOK, RowOK, Stale
  <2> QED BY <2>1, <2>2, <2>4 DEF Answered
<1>16. Truthful'
  <2>1. Holds(cache) /\ IsFn(cache) BY <1>1 DEF IInv, Truthful, CacheHolds
  <2>2. \A c : Holds(c)' <=> Holds(c) BY DEF Holds
  <2>3. \A c : c = L!Applied(cache, batch.new) => Holds(c) /\ IsFn(c) BY <2>1, <1>10, AppliedHolds
  <2>4. CacheHolds' BY <2>2, <2>3, <1>3 DEF CacheHolds, Holds, IsFn
  <2>5. StoredHolds' /\ SavesHold' BY <1>5 DEF IInv, Truthful, StoredHolds, SavesHold, Holds, IsFn
  <2> QED BY <2>4, <2>5 DEF Truthful
<1>17. Saved'
  <2>1. Saving /\ L!CacheIsSaved /\ IsFn(cache) BY <1>1 DEF IInv, Saved, Truthful, CacheHolds
  <2>2. CASE L!Changed(cache, batch.new) = <<>>
    <3>1. cache' = cache BY <2>1, <2>2, <1>3, AppliedSame
    <3>2. dirty' = dirty /\ rev' = rev BY <2>2, <1>3
    <3>3. Saving' /\ L!CacheIsSaved' BY <2>1, <3>1, <3>2, <1>5, SavingStays
    <3>4. Early' BY <3>1, <1>1 DEF Early
    <3> QED BY <3>3, <3>4 DEF Saved
  <2>3. CASE L!Changed(cache, batch.new) # <<>>
    <3>1. dirty' = TRUE /\ rev' = rev + 1 BY <2>3, <1>3
    <3>2. rev \in Nat BY <2>1 DEF Saving
    <3>3. ASSUME ~crossed, NEW s \in saves PROVE SaveOK(s)'
      <4>1. SaveOK(s) BY <3>3, <2>1 DEF Saving
      <4>2. s.rev \in Nat /\ s.rev <= rev' /\ s.rev # rev' BY <4>1, <3>1, <3>2 DEF SaveOK
      <4> QED BY <4>1, <4>2, <1>5 DEF SaveOK
    <3>4. Saving' BY <2>1, <3>1, <3>2, <3>3, <1>5 DEF Saving
    <3>5. L!CacheIsSaved' BY <3>1 DEF L!CacheIsSaved
    <3>6. Early'
      <4>1. \A c : c = L!Applied(cache, batch.new) => Holds(c) /\ IsFn(c)
        BY <1>1, <1>10, AppliedHolds DEF IInv, Truthful, CacheHolds
      <4>2. \A c : c = L!Applied(cache, batch.new) => c # Nothing BY <4>1, IsThere
      <4> QED BY <4>2, <1>3 DEF Early
    <3> QED BY <3>4, <3>5, <3>6 DEF Saved
  <2> QED BY <2>2, <2>3
<1> QED BY <1>11, <1>13, <1>14, <1>15, <1>16, <1>17 DEF IInv, LookedUp

(* A refresh: no row, no number, an empty cache. *)
LEMMA RefreshHolds == ASSUME IInv, L!Refresh PROVE IInv'
<1>1. rows' = <<>> /\ wait' = {} /\ newest' = <<>> /\ kept' = {} BY DEF L!Refresh
<1>2. cache' = <<>> /\ dirty' = FALSE /\ rev' = rev + 1 /\ saving' = FALSE /\ clears' = clears + 1
      /\ crossed' = (crossed \/ saves # {})
  BY DEF L!Refresh, L!ClearCache
<1>3. UNCHANGED <<file, serial, saves, stored, batches, apply, orphans>> BY DEF L!Refresh
<1>4. DOMAIN newest' = {} /\ DOMAIN rows' = {} BY <1>1, DOMAIN <<>> = {}
<1>5. LookedUp'
  <2>1. Numbered' BY <1>3 DEF IInv, LookedUp, Numbered, BatchOK, Holds, IsFn
  <2>2. Waited' /\ L!NobodyWaitsInVain' BY <1>1, <1>4 DEF Waited, L!NobodyWaitsInVain, L!IsLatest
  <2> QED BY <2>1, <2>2 DEF LookedUp
<1>6. Answered'
  <2>1. FileOK' /\ ApplyOK' BY <1>3 DEF IInv, Answered, FileOK, ApplyOK, L!Updates
  <2>2. RowsOK' /\ ResultsOK' BY <1>4 DEF RowsOK, ResultsOK, L!IsLatest
  <2> QED BY <2>1, <2>2 DEF Answered
<1>7. Truthful'
  <2>1. CacheHolds' BY <1>2, EmptyHolds DEF CacheHolds, Holds, IsFn
  <2>2. StoredHolds' /\ SavesHold' BY <1>3 DEF IInv, Truthful, StoredHolds, SavesHold, Holds, IsFn
  <2> QED BY <2>1, <2>2 DEF Truthful
<1>8. Saving BY DEF IInv, Saved
<1>9. rev' \in Nat /\ clears' \in Nat /\ clears' # 0 BY <1>2, <1>8 DEF Saving
<1>10. Saving' BY <1>2, <1>3, <1>8, <1>9 DEF Saving
<1>11. L!CacheIsSaved' BY <1>9 DEF L!CacheIsSaved
<1>12. <<>> # Nothing BY EmptyHolds, IsThere
<1>13. Early' BY <1>2, <1>12 DEF Early
<1> QED BY <1>5, <1>6, <1>7, <1>10, <1>11, <1>13 DEF IInv, Saved

(* An update begins. *)
LEMMA UpdateHolds ==
  ASSUME IInv, NEW fs \in SUBSET Files, NEW focus \in SUBSET fs, L!Update(fs, focus) PROVE IInv'
<1>1. apply = Nothing /\ apply' = [files |-> fs, focus |-> focus, at |-> "run"] BY DEF L!Update
<1>2. UNCHANGED <<file, rows, wait, newest, serial, cache, dirty, rev, saving, saves, clears, stored, batches, kept,
                  crossed, orphans>>
  BY DEF L!Update, L!rowVars, L!cacheVars, L!diskVars
<1>3. LookedUp' BY <1>2, LookedUpStays DEF IInv
<1>4. Truthful' BY <1>2, TruthfulStays DEF IInv
<1>5. Saved' BY <1>2, SavedStays DEF IInv
<1>6. apply' \in L!Updates /\ apply'.focus \subseteq apply'.files BY <1>1 DEF L!Updates
<1>7. ApplyOK' BY <1>6 DEF ApplyOK, L!Updates
<1>8. \A f : ~Stale(f) BY <1>1 DEF Stale
<1>9. FileOK' BY <1>2 DEF IInv, Answered, FileOK
<1>10. RowsOK' BY <1>2, <1>8 DEF IInv, Answered, RowsOK, RowOK, Sure
<1>11. ResultsOK' BY <1>2, <1>8 DEF IInv, Answered, ResultsOK, ResultOK, Sure, L!IsLatest
<1> QED BY <1>3, <1>4, <1>5, <1>7, <1>9, <1>10, <1>11 DEF IInv, Answered

(* What an update replaces is Stale until its result is polled. *)
LEMMA UpdatedHolds == ASSUME IInv, L!Updated PROVE IInv'
<1>1. apply # Nothing /\ apply.at = "run" BY DEF L!Updated
<1>2. UNCHANGED <<rows, wait, newest, serial, cache, dirty, rev, saving, saves, clears, stored, batches, kept,
                  crossed, orphans>>
  BY DEF L!Updated, L!rowVars, L!cacheVars, L!diskVars
<1>3. LookedUp' BY <1>2, LookedUpStays DEF IInv
<1>4. Truthful' BY <1>2, TruthfulStays DEF IInv
<1>5. Saved' BY <1>2, SavedStays DEF IInv
<1>6. apply \in L!Updates /\ apply.focus \subseteq apply.files BY <1>1 DEF IInv, Answered, ApplyOK
<1>7. \A f : ~Stale(f) BY <1>1 DEF Stale
<1>8. FileOK /\ RowsOK /\ ResultsOK BY DEF IInv, Answered
<1>9. CASE file' = [f \in Files |-> IF f \in apply.files THEN L!Latest ELSE file[f]]
           /\ apply' = [apply EXCEPT !.at = "ok"]
  <2>1. apply' \in L!Updates /\ apply'.files = apply.files /\ apply'.focus = apply.focus /\ apply'.at = "ok"
    BY <1>6, <1>9 DEF L!Updates
  <2>2. apply' # Nothing BY <2>1, NothingAssumption
  <2>3. ApplyOK' BY <2>1, <1>6 DEF ApplyOK, L!Updates
  <2>4. FileOK' BY <1>8, <1>9 DEF FileOK, L!Versions, L!Latest
  <2>5. ASSUME NEW f \in Files, NEW v, v = file[f] PROVE v = file'[f] \/ Stale(f)'
    <3>1. CASE f \in apply.files BY <3>1, <2>1, <2>2 DEF Stale
    <3>2. CASE f \notin apply.files BY <3>2, <2>5, <1>9
    <3> QED BY <3>1, <3>2
  <2>6. RowsOK' BY <2>5, <1>2, <1>7, <1>8 DEF RowsOK, RowOK, Sure
  <2>7. ResultsOK'
    <3>1. \A batch \in batches : batch.done => DOMAIN batch.res \subseteq Files BY DEF IInv, LookedUp, Numbered, BatchOK
    <3> QED BY <3>1, <2>5, <1>2, <1>7, <1>8 DEF ResultsOK, ResultOK, Sure, L!IsLatest
  <2> QED BY <1>3, <1>4, <1>5, <2>3, <2>4, <2>6, <2>7 DEF IInv, Answered
<1>10. CASE file' = file /\ apply' = [apply EXCEPT !.at = "failed"]
  <2>1. apply' \in L!Updates /\ apply'.focus \subseteq apply'.files /\ apply'.at = "failed" BY <1>6, <1>10 DEF L!Updates
  <2>2. ApplyOK' BY <2>1 DEF ApplyOK, L!Updates
  <2>3. FileOK' BY <1>8, <1>10 DEF FileOK
  <2>4. RowsOK' BY <1>2, <1>7, <1>8, <1>10 DEF RowsOK, RowOK, Sure
  <2>5. ResultsOK' BY <1>2, <1>7, <1>8, <1>10 DEF ResultsOK, ResultOK, Sure, L!IsLatest
  <2> QED BY <1>3, <1>4, <1>5, <2>2, <2>3, <2>4, <2>5 DEF IInv, Answered
<1> QED BY <1>9, <1>10 DEF L!Updated

(* The result of an update: the rows but those in focus go, with their      *)
(* numbers; those in focus count as kept.                                   *)
LEMMA PollApplyHolds == ASSUME IInv, L!PollApply PROVE IInv'
<1>1. apply # Nothing /\ apply.at # "run" /\ apply' = Nothing BY DEF L!PollApply
<1>2. UNCHANGED <<file, serial, cache, dirty, rev, saving, saves, clears, stored, batches, crossed, orphans>>
  BY DEF L!PollApply, L!cacheVars, L!diskVars, L!rowVars
<1>3. Truthful' BY <1>2, TruthfulStays DEF IInv
<1>4. Saved' BY <1>2, SavedStays DEF IInv
<1>5. FileOK' /\ ApplyOK' BY <1>1, <1>2 DEF IInv, Answered, FileOK, ApplyOK
<1>6. apply \in L!Updates /\ apply.focus \subseteq apply.files BY <1>1 DEF IInv, Answered, ApplyOK
<1>7. FileOK /\ RowsOK /\ ResultsOK /\ Numbered /\ Waited /\ L!NobodyWaitsInVain BY DEF IInv, Answered, LookedUp
<1>8. Numbered' BY <1>2, <1>7 DEF Numbered, BatchOK, Holds, IsFn
<1>9. CASE apply.at = "failed"
  <2>1. UNCHANGED <<rows, wait, newest, kept>> BY <1>9 DEF L!PollApply, L!rowVars
  <2>2. LookedUp' BY <2>1, <1>2, LookedUpStays DEF IInv
  <2>3. \A f : ~Stale(f) BY <1>9 DEF Stale
  <2>4. RowsOK' BY <2>1, <2>3, <1>2, <1>7 DEF RowsOK, RowOK, Sure
  <2>5. ResultsOK' BY <2>1, <2>3, <1>2, <1>7 DEF ResultsOK, ResultOK, Sure, L!IsLatest
  <2> QED BY <2>2, <2>4, <2>5, <1>3, <1>4, <1>5 DEF IInv, Answered
<1>10. CASE apply.at # "failed"
  <2> DEFINE keep == apply.focus
  <2>1. /\ rows' = [f \in DOMAIN rows \cap keep |-> rows[f]] /\ wait' = wait \cap keep
        /\ newest' = [f \in DOMAIN newest \cap keep |-> newest[f]]
        /\ kept' = kept \cup (keep \cap (DOMAIN rows \cup wait))
    BY <1>10 DEF L!PollApply, L!Forget
  <2> HIDE DEF keep
  <2>2. \A batch, f : L!IsLatest(batch, f)' <=> L!IsLatest(batch, f) /\ f \in keep BY <2>1 DEF L!IsLatest
  <2>3. Waited' BY <2>1, <2>2, <1>2, <1>7 DEF Waited
  <2>4. L!NobodyWaitsInVain'
    <3> SUFFICES ASSUME NEW f \in wait'
                 PROVE  \/ \E d \in batches : f \in DOMAIN d.had /\ L!IsLatest(d, f)'
                        \/ \E s \in 1 .. serial : <<f, s>> \in orphans /\ f \in DOMAIN newest' /\ newest'[f] = s
      BY <1>2 DEF L!NobodyWaitsInVain
    <3>1. f \in wait /\ f \in keep BY <2>1
    <3>2. f \in DOMAIN newest => f \in DOMAIN newest' /\ newest'[f] = newest[f] BY <2>1, <3>1
    <3> QED BY <3>1, <3>2, <2>2, <1>7 DEF L!NobodyWaitsInVain
  <2>5. RowsOK'
    <3>1. DOMAIN rows' \ kept' = {} BY <2>1
    <3>2. DOMAIN rows' \subseteq Files BY <2>1, <1>7 DEF RowsOK
    <3> QED BY <3>1, <3>2 DEF RowsOK
  <2>6. ASSUME NEW batch \in batches, batch.done, NEW f \in DOMAIN batch.res \ kept', L!IsLatest(batch, f)' PROVE FALSE
    <3>1. L!IsLatest(batch, f) /\ f \in keep BY <2>6, <2>2
    <3>2. f \in DOMAIN batch.had BY <2>6, <1>7 DEF Numbered, BatchOK
    <3>3. f \in wait BY <3>1, <3>2, <1>7 DEF Waited
    <3> QED BY <3>1, <3>3, <2>1, <2>6
  <2>7. ResultsOK' BY <2>6, <1>2 DEF ResultsOK
  <2> QED BY <2>3, <2>4, <2>5, <2>7, <1>3, <1>4, <1>5, <1>8 DEF IInv, Answered, LookedUp
<1> QED BY <1>9, <1>10

(* Every step keeps the invariant. *)
LEMMA Inductive == ASSUME IInv, L!Next PROVE IInv'
<1>1. CASE L!RequestScan BY <1>1, QuietHolds DEF L!RequestScan, L!rowVars
<1>2. CASE L!Request BY <1>2, RequestHolds
<1>3. CASE L!Load BY <1>3, QuietHolds DEF L!Load, L!rowVars
<1>4. CASE L!PollLoad BY <1>4, LoadHolds
<1>5. CASE L!Flush BY <1>5, FlushHolds
<1>6. CASE L!ClearDisk BY <1>6, ClearDiskHolds
<1>7. CASE L!Refresh BY <1>7, RefreshHolds
<1>8. CASE L!Updated BY <1>8, UpdatedHolds
<1>9. CASE L!PollApply BY <1>9, PollApplyHolds
<1>10. ASSUME NEW s \in scan, L!ReadScan(s) \/ L!PollScan(s) PROVE IInv'
  BY <1>10, QuietHolds DEF L!ReadScan, L!PollScan, L!rowVars
<1>11. ASSUME NEW batch \in batches, L!Poll(batch) \/ L!Panic(batch) \/ \E down \in L!Calls \cup {"none"} : L!Work(batch, down)
       PROVE  IInv'
  BY <1>11, PollHolds, PanicHolds, WorkHolds
<1>12. ASSUME NEW f \in Files, L!Elapse(f) PROVE IInv' BY <1>12, QuietHolds DEF L!Elapse
<1>13. ASSUME NEW f \in Files, L!Update({f}, {f}) PROVE IInv' BY <1>13, UpdateHolds
<1>14. CASE L!Update(Files, {}) BY <1>14, UpdateHolds
<1>15. ASSUME NEW s \in saves, L!WriteCache(s) \/ L!PollSave(s) PROVE IInv' BY <1>15, WriteHolds, PollSaveHolds
<1> QED BY <1>1, <1>2, <1>3, <1>4, <1>5, <1>6, <1>7, <1>8, <1>9, <1>10, <1>11, <1>12, <1>13, <1>14, <1>15 DEF L!Next

(* LookupsSettle: the rows of the instance screen are true and settle, and   *)
(* its cache reaches the file, in every behaviour of MCContent.              *)
THEOREM RowsAreTrueAndSettle == MCSpec => []LookupsSettle
<1> DEFINE Inv == part = "lookup" => IInv
<1>1. MCInit => Inv
  <2> SUFFICES ASSUME MCInit, part = "lookup" PROVE IInv OBVIOUS
  <2>1. L!Init BY DEF MCInit
  <2> QED BY <2>1, StartHolds
<1>2. Inv /\ [MCNext]_<<vars, lookupVars, modVars, leavingVars, part>> => Inv'
  <2> SUFFICES ASSUME Inv, [MCNext]_<<vars, lookupVars, modVars, leavingVars, part>>, part' = "lookup" PROVE IInv'
    OBVIOUS
  <2>1. part' = part BY DEF MCNext
  <2>2. IInv BY <2>1
  <2>3. CASE L!Next BY <2>2, <2>3, Inductive
  <2>4. CASE UNCHANGED lookupVars BY <2>2, <2>4, QuietHolds DEF lookupVars, L!cacheVars, L!diskVars
  <2> QED BY <2>1, <2>3, <2>4 DEF MCNext
<1>3. Inv => LookupsSettle
  <2>1. ASSUME IInv, apply = Nothing, NEW f \in DOMAIN rows \ kept, rows[f] # Miss, rows[f].by # "search"
        PROVE  rows[f].v = file[f]
    <3>1. RowOK(f) /\ ~Stale(f) BY <2>1 DEF IInv, Answered, RowsOK, Stale
    <3> QED BY <3>1, <2>1 DEF RowOK, Sure
  <2>2. IInv => L!RowsAreTrue BY <2>1 DEF L!RowsAreTrue
  <2> QED BY <2>2 DEF IInv, LookedUp, Saved, LookupsSettle
<1> QED BY <1>1, <1>2, <1>3, PTL DEF MCSpec
=============================================================================
