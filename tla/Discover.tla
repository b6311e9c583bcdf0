------------------------------- MODULE Discover -------------------------------
(***************************************************************************)
(* The Discover screen (screens/discover.rs, discover/discover_api.rs,     *)
(* discover_detail.rs, se5/screens/discover.rs): modpacks are searched for *)
(* at two providers, page after page; the packs both have are merged; a    *)
(* pack's own page lists its versions, from the provider selected there.   *)
(* Searches and version lists are fetched by workers that cannot be        *)
(* stopped; their answers carry the serial number of their request.  What  *)
(* is searched for (text, tags, filters, order) is one value.              *)
(***************************************************************************)
EXTENDS Integers, FiniteSets, Sequences

CONSTANTS Queries,    \* what can be searched for
          Pages,
          Packs,      \* packs whose page can be opened: both providers have them
          Names,      \* the names of packs found
          Nothing, MaxLooks, MaxFetches

VARIABLES query,      \* what the fields say
          shown,      \* the results shown: a set of requests
          page, more, \* page and has_more_results
          flying,     \* the search in flight
          stored,     \* the searches kept
          detail,     \* the open page: its pack, the provider selected, the versions
                      \* listed (the fetch they came by), the serial number, in flight
          fetches,    \* version lists being fetched
          looks, fetched,
          mixed,      \* an excuse: results of two searches may be shown
          renumbered, \* an excuse: fetches a page was opened over, which starts its numbers again
          crossed     \* an excuse: the fetch whose page turned to the other provider

searchVars == <<query, shown, page, more, flying, stored, mixed>>
detailVars == <<detail, fetches, fetched, renumbered, crossed>>

Request(q, p) == [query |-> q, page |-> p]
Sides == {"modrinth", "curseforge"}

\* There are Pages pages of each; a provider that fails makes a page the last.
HasMore(r, whole) == whole /\ r.page < Pages

SearchInit ==
    /\ query \in Queries /\ shown = {} /\ page = 1 /\ more = TRUE /\ flying = Nothing /\ stored = {}
    /\ mixed = FALSE
DetailInit ==
    /\ detail = [opened |-> Nothing, side |-> "modrinth", versions |-> Nothing, serial |-> 0,
                 listing |-> FALSE]
    /\ fetches = {} /\ fetched = 0 /\ renumbered = {} /\ crossed = {}
DiscoverInit == SearchInit /\ DetailInit /\ looks = 0

-----------------------------------------------------------------------------
\* The search.

\* Mutant of ShowReplaced: the results before are kept.
ShowAll(r) == shown' = shown \cup {r} /\ page' = r.page

\* A first page replaces what is shown, a further one is added to it.
ShowReplaced(r) == shown' = {r} /\ page' = r.page
ShowAppended(r) == shown' = shown \cup {r} /\ page' = (IF r.page > page THEN r.page ELSE page)
Show(r, last, replaces) ==
    /\ IF replaces THEN ShowReplaced(r) ELSE ShowAppended(r)
    /\ more' = ~last

\* What a search asks for: the first page, or the one after the last.
CurrentRequest(q, replaces) == Request(q, IF replaces THEN 1 ELSE page + 1)

RequestSearch(q, replaces) ==
    IF flying # Nothing THEN UNCHANGED <<shown, page, more, flying>>
    ELSE LET r == CurrentRequest(q, replaces)
         IN IF \E k \in stored : k.of = r
            THEN Show(r, (CHOOSE k \in stored : k.of = r).last, replaces) /\ UNCHANGED flying
            ELSE /\ flying' = r /\ UNCHANGED shown
                 /\ IF replaces THEN page' = 1 /\ more' = TRUE ELSE UNCHANGED <<page, more>>

\* The screen's first frame searches; a filter, a tag, Enter and the button do.  A search
\* asked for while another is under way is not made.
Search ==
    /\ looks < MaxLooks /\ looks' = looks + 1
    /\ \E q \in Queries :
         /\ query' = q /\ RequestSearch(q, TRUE)
         /\ mixed' = (flying # Nothing /\ (mixed \/ flying.query # q))
    /\ UNCHANGED stored

\* Typing looks the text; nothing is searched for until Enter.
Type ==
    /\ looks < MaxLooks /\ looks' = looks + 1
    /\ query' \in Queries \ {query} /\ mixed' = TRUE
    /\ UNCHANGED <<shown, page, more, flying, stored>>

\* Scrolled to the end, in every frame.
LoadMore ==
    /\ shown # {} /\ more /\ flying = Nothing
    /\ RequestSearch(query, FALSE)
    /\ UNCHANGED <<query, stored, looks, mixed>>

\* The worker's answer.
PollSearch ==
    /\ flying # Nothing
    /\ \E whole \in BOOLEAN :
         LET last == ~HasMore(flying, whole)
         IN /\ Show(flying, last, flying.page <= 1)
            /\ stored' = stored \cup {[of |-> flying, last |-> last]}
    /\ flying' = Nothing
    /\ UNCHANGED <<query, looks, mixed>>

SearchNext == (Search \/ Type \/ LoadMore \/ PollSearch) /\ UNCHANGED detailVars

-----------------------------------------------------------------------------
\* A pack's page.

OpenDetail ==
    /\ looks < MaxLooks /\ looks' = looks + 1
    /\ \E p \in Packs :
         IF p = detail.opened THEN UNCHANGED detailVars
         ELSE /\ detail' = [opened |-> p, side |-> "modrinth", versions |-> Nothing, serial |-> 0,
                            listing |-> FALSE]
              /\ renumbered' = renumbered \cup fetches
              /\ UNCHANGED <<fetches, fetched, crossed>>
    /\ UNCHANGED searchVars

SelectSource ==
    /\ detail.opened # Nothing /\ looks < MaxLooks /\ looks' = looks + 1
    /\ \E other \in Sides \ {detail.side} :
         detail' = [detail EXCEPT !.side = other, !.versions = Nothing, !.listing = FALSE]
    /\ crossed' = {f \in fetches : f.serial = detail.serial}
    /\ UNCHANGED <<fetches, fetched, renumbered, searchVars>>

\* Mutant of Stale: every answer is taken.
NoneStale(f, d) == FALSE
Stale(f, d) == f.serial # d.serial

\* An answer to another request is ignored; the list may be empty.
Answered(d, f, empty) ==
    IF Stale(f, d) THEN d
    ELSE [d EXCEPT !.listing = FALSE, !.versions = IF empty THEN Nothing ELSE f]

\* A frame takes what has arrived, and asks for the versions it does not have: an empty
\* list again and again.
DetailTick ==
    /\ detail.opened # Nothing
    /\ \E arrived \in SUBSET fetches, empty \in BOOLEAN :
         /\ Cardinality(arrived) <= 1
         /\ LET polled == IF arrived = {} THEN detail
                          ELSE Answered(detail, CHOOSE f \in arrived : TRUE, empty)
                asks == ~polled.listing /\ polled.versions = Nothing
            IN IF ~asks THEN detail' = polled /\ fetches' = fetches \ arrived
                             /\ UNCHANGED <<fetched, crossed>>
               ELSE /\ fetched < MaxFetches /\ fetched' = fetched + 1 /\ crossed' = {}
                    /\ detail' = [polled EXCEPT !.listing = TRUE, !.serial = @ + 1]
                    /\ fetches' = (fetches \ arrived) \cup
                         {[n |-> fetched + 1, serial |-> polled.serial + 1, pack |-> polled.opened,
                           side |-> polled.side]}
    /\ UNCHANGED <<renumbered, looks, searchVars>>

DetailNext == OpenDetail \/ SelectSource \/ DetailTick

-----------------------------------------------------------------------------
\* Merging what the providers found.

VARIABLES modrinth, curseforge, order

Hits == {[name |-> n, score |-> s] : n \in Names, s \in 1 .. 2}
MergeInit ==
    /\ modrinth \in UNION {[1 .. n -> Hits] : n \in 0 .. 2}
    /\ curseforge \in UNION {[1 .. n -> Hits] : n \in 0 .. 2}
    /\ order = Nothing

\* The entries of both, in the order found; the rank is the place with its provider.
Ranked(hits, source) ==
    [k \in 1 .. Len(hits) |-> [name |-> hits[k].name, score |-> hits[k].score, rank |-> k - 1,
                               ref |-> <<source, k>>]]
Found == Ranked(modrinth, "modrinth") \o Ranked(curseforge, "curseforge")

\* Mutant of Merged: what was found first is kept.
MergedRefs(a, e) == [a EXCEPT !.refs = Append(@, e.ref)]
Merged(a, e) == [a EXCEPT !.refs = Append(@, e.ref),
                          !.score = IF e.score > @ THEN e.score ELSE @,
                          !.rank = IF e.rank < @ THEN e.rank ELSE @]
Deduped(entries) ==
    LET names == {entries[k].name : k \in 1 .. Len(entries)}
        upTo[k \in 0 .. Len(entries)] ==
            IF k = 0 THEN [n \in names |-> Nothing]
            ELSE LET e == entries[k]
                 IN [upTo[k - 1] EXCEPT ![e.name] =
                       IF @ = Nothing THEN [name |-> e.name, score |-> e.score, rank |-> e.rank,
                                            refs |-> <<e.ref>>]
                       ELSE Merged(@, e)]
    IN {upTo[Len(entries)][n] : n \in names}

\* By popularity, or by relevance with popularity second.
Before(a, b, mode) ==
    CASE mode = "popularity" -> a.score > b.score
      [] mode = "relevance" -> a.rank < b.rank \/ (a.rank = b.rank /\ a.score > b.score)
Listed(entries, mode) ==
    CHOOSE s \in [1 .. Cardinality(entries) -> entries] :
        /\ {s[k] : k \in DOMAIN s} = entries
        /\ \A j, k \in DOMAIN s : j < k => ~Before(s[k], s[j], mode)

MergeNext ==
    /\ order = Nothing
    /\ \E mode \in {"popularity", "relevance"} :
         order' = [mode |-> mode, entries |-> Listed(Deduped(Found), mode)]
    /\ UNCHANGED <<modrinth, curseforge>>

-----------------------------------------------------------------------------
\* What is shown is one search's pages from the first to the current, none twice and none
\* missing, and what the fields say; a search that was dropped, or text that was not
\* submitted, is excused, until a search is made again.
ResultsAreOfOneSearch ==
    (~mixed /\ shown # {} /\ flying = Nothing) =>
        shown = {Request(query, p) : p \in 1 .. page}

\* The versions listed are of the pack whose page is open and the provider selected there;
\* excused are fetches that were under way when a page was opened, for its numbers start
\* again, and the one whose answer arrives before the other provider was asked.
VersionsAreThePacks ==
    LET v == detail.versions
    IN (v # Nothing /\ v \notin renumbered \cup crossed) =>
          v.pack = detail.opened /\ v.side = detail.side

\* Every hit is in one entry, which is reckoned by the best of its hits.
NothingFoundIsLost ==
    order # Nothing =>
        LET entries == {order.entries[k] : k \in DOMAIN order.entries}
        IN \A k \in DOMAIN Found :
             LET holders == {e \in entries : \E i \in DOMAIN e.refs : e.refs[i] = Found[k].ref}
             IN /\ Cardinality(holders) = 1
                /\ \A e \in holders : e.name = Found[k].name /\ e.score >= Found[k].score
                                      /\ e.rank <= Found[k].rank

DiscoverIsRight == ResultsAreOfOneSearch /\ VersionsAreThePacks
=============================================================================
