---------------------------- MODULE KeywordWatch ----------------------------
(***************************************************************************)
(* Standing catalogue searches: the search of one due watch in a thread    *)
(* (app/worker.py), the classification of what it shows and the alerts     *)
(* (app/keyword_watch.py), the rows (database/crud.py), and the commands   *)
(* on them, one of which searches as well (scripts/watch.py).              *)
(*                                                                         *)
(* The worker and the command line are two processes on one database: an   *)
(* action ends at a request, at a commit, or between the reads of a row    *)
(* and the commit that writes it.  An item is a listing of a shop.  What a *)
(* watch filters out as irrelevant is not among the results: it leaves no  *)
(* trace.                                                                  *)
(***************************************************************************)
EXTENDS Naturals, FiniteSets

CONSTANTS
  Watch,             \* the ids of watches, numbers
  Capped,            \* the watches with a max_price, which a dear item exceeds
  Seller, Code,      \* shops that can be searched, and their product codes
  SearchInterval,    \* check_interval, in units of the clock
  AlertRest,         \* the cooldown of an alert
  MaxCommands,       \* bound of the commands that change a watch
  MaxKeywordDeaths,  \* bound of the deaths of the worker
  MaxKeywordClock,   \* bound of the clock
  NoItem

Item     == Seller \X Code
Sighting == Watch \X Item
Searcher == {"worker", "cli"}

ASSUME KeywordAssumption ==
  /\ Watch \subseteq Nat /\ Capped \subseteq Watch
  /\ SearchInterval \in Nat /\ AlertRest \in Nat
  /\ MaxCommands \in Nat /\ MaxKeywordDeaths \in Nat /\ MaxKeywordClock \in Nat
  /\ NoItem \notin Item

VARIABLES
  watchRow,        \* the keyword_watches table
  sighted,         \* the keyword_watch_seen table: the availability on record
  searcherUp,      \* whether the worker runs
  searching,       \* _keyword_watch_in_flight
  alertedAt,       \* the cooldown of alerts: 0, or 1 + the time
  search,          \* the search of the worker and that of the command line
  newsOf,          \* (history) news made of a sighting since it was last out
  settled,         \* (history) sightings on record as available that need no
                   \* alert any more, or whose alert something prevented
  commands,
  keywordDeaths,
  keywordClock

keywordRows    == <<watchRow, sighted>>
keywordMemory  == <<searcherUp, searching, alertedAt>>
keywordHistory == <<newsOf, settled>>
keywordVars    == <<keywordRows, keywordMemory, search, keywordHistory, commands,
                    keywordDeaths, keywordClock>>

Hit     == [item : Item, available : BOOLEAN, dear : BOOLEAN]
Find    == [item : Item, dear : BOOLEAN, reason : {"new", "restock"}]
NoSight == [hit |-> NoItem, reason |-> "none", row |-> "unseen"]
NoFind  == [item |-> NoItem, dear |-> FALSE, reason |-> "none"]
NoRun   == [pc |-> "none", watch |-> 0, since |-> 0, sellers |-> {}, hits |-> {},
            sight |-> NoSight, finds |-> {}, sending |-> NoFind]

NoWatch  == [state |-> "none", searched |-> 0]
NewWatch == [state |-> "enabled", searched |-> 0]

\* Some watches have been added and never been searched.
KeywordInit ==
  /\ watchRow \in [Watch -> {NoWatch, NewWatch}]
  /\ sighted = [p \in Sighting |-> "unseen"]
  /\ searcherUp = FALSE /\ searching = FALSE
  /\ alertedAt = [f \in Find |-> 0]
  /\ search = [a \in Searcher |-> NoRun]
  /\ newsOf = [p \in Sighting |-> 0]
  /\ settled = {}
  /\ commands = 0 /\ keywordDeaths = 0 /\ keywordClock = 0

-----------------------------------------------------------------------------
(* Commands on watches. *)

Command ==
  /\ commands < MaxCommands
  /\ commands' = commands + 1
  /\ UNCHANGED <<keywordMemory, keywordDeaths, keywordClock>>

AddWatch(w) ==
  /\ Command
  /\ watchRow[w].state = "none"
  /\ watchRow' = [watchRow EXCEPT ![w] = NewWatch]
  /\ UNCHANGED <<sighted, search, keywordHistory>>

SwitchWatch(w) ==
  /\ Command
  /\ watchRow[w].state # "none"
  /\ watchRow' = [watchRow EXCEPT ![w].state =
                    IF @ = "enabled" THEN "disabled" ELSE "enabled"]
  /\ UNCHANGED <<sighted, search, keywordHistory>>

\* The rows of what the watch has seen go with it.
DeleteWatch(w) ==
  /\ Command
  /\ watchRow[w].state # "none"
  /\ watchRow' = [watchRow EXCEPT ![w] = NoWatch]
  /\ sighted' = [p \in Sighting |-> IF p[1] = w THEN "unseen" ELSE sighted[p]]
  /\ newsOf' = [p \in Sighting |-> IF p[1] = w THEN 0 ELSE newsOf[p]]
  /\ settled' = {p \in settled : p[1] # w}
  /\ UNCHANGED search

-----------------------------------------------------------------------------
(* The search of a watch. *)

StartSearcher ==
  /\ ~searcherUp
  /\ searcherUp' = TRUE
  /\ UNCHANGED <<keywordRows, searching, alertedAt, search, keywordHistory,
                 commands, keywordDeaths, keywordClock>>

\* _keyword_watch_is_due, for the watches that are enabled
DueWatch ==
  {w \in Watch : /\ watchRow[w].state = "enabled"
                 /\ watchRow[w].searched # 0 =>
                      keywordClock + 1 >= watchRow[w].searched + SearchInterval}

FirstDue == CHOOSE w \in DueWatch : \A v \in DueWatch : w <= v

RunOf(w) == [NoRun EXCEPT !.pc = "searching", !.watch = w,
                          !.since = keywordClock + 1, !.sellers = Seller]

StartSearch ==
  /\ searcherUp /\ ~searching /\ DueWatch # {}
  /\ searching' = TRUE
  /\ search' = [search EXCEPT !["worker"] = RunOf(FirstDue)]
  /\ UNCHANGED <<keywordRows, searcherUp, alertedAt, keywordHistory, commands,
                 keywordDeaths, keywordClock>>

TickWithoutSearch ==
  /\ searcherUp
  /\ searching \/ DueWatch = {}
  /\ UNCHANGED keywordVars

\* `keywords run`: the same search, whose finds are printed.
StartCliSearch(w) ==
  /\ Command
  /\ search["cli"] = NoRun /\ watchRow[w].state # "none"
  /\ search' = [search EXCEPT !["cli"] = RunOf(w)]
  /\ UNCHANGED <<keywordRows, keywordHistory>>

Idle(r) == r.pc = "searching" /\ r.hits = {} /\ r.sight = NoSight

SearchFails(a, s) ==
  /\ Idle(search[a]) /\ s \in search[a].sellers
  /\ search' = [search EXCEPT ![a].sellers = @ \ {s}]
  /\ UNCHANGED <<keywordRows, keywordMemory, keywordHistory, commands,
                 keywordDeaths, keywordClock>>

\* A shop answers with some of its listings, each one once.
SearchAnswers(a, s) ==
  /\ Idle(search[a]) /\ s \in search[a].sellers
  /\ \E found \in SUBSET Code : \E in, dear \in SUBSET found :
       search' = [search EXCEPT
         ![a].sellers = @ \ {s},
         ![a].hits = {[item |-> <<s, c>>, available |-> c \in in,
                       dear |-> c \in dear] : c \in found}]
  /\ UNCHANGED <<keywordRows, keywordMemory, keywordHistory, commands,
                 keywordDeaths, keywordClock>>

\* (slip) Every sighting of an available item is a restock.
ReasonOfAvailable(row, hit) ==
  IF row = "unseen" THEN "new" ELSE IF hit.available THEN "restock" ELSE "none"

\* (slip) Only a listing never seen before is news.
ReasonOfNew(row, hit) == IF row = "unseen" THEN "new" ELSE "none"

\* _classify
ReasonOf(row, hit) ==
  IF row = "unseen" THEN "new"
  ELSE IF hit.available /\ row = "out" THEN "restock" ELSE "none"

\* The reads of the row: by _classify and by the upsert.
ReadSighting(a, hit) ==
  LET r == search[a]
      row == sighted[<<r.watch, hit.item>>] IN
  /\ r.pc = "searching" /\ r.sight = NoSight /\ hit \in r.hits
  /\ search' = [search EXCEPT
       ![a].hits = @ \ {hit},
       ![a].sight = [hit |-> hit, reason |-> ReasonOf(row, hit),
                     row |-> row]]
  /\ UNCHANGED <<keywordRows, keywordMemory, keywordHistory, commands,
                 keywordDeaths, keywordClock>>

TooDear(w, hit) == w \in Capped /\ hit.dear

\* What run_keyword_watch appends to its finds.
FindsOf(w, s) ==
  IF s.reason = "none" \/ ~s.hit.available \/ TooDear(w, s.hit) THEN {}
  ELSE {[item |-> s.hit.item, dear |-> s.hit.dear, reason |-> s.reason]}

\* The insert finds the key taken or the watch gone, the update its row gone.
CannotRecord(r) ==
  LET row == sighted[<<r.watch, r.sight.hit.item>>] IN
  \/ watchRow[r.watch].state = "none"
  \/ (r.sight.row = "unseen") # (row = "unseen")

\* The commit of the upsert, and what becomes of the sighting.
RecordSighting(a) ==
  LET r == search[a]
      p == <<r.watch, r.sight.hit.item>>
      finds == FindsOf(r.watch, r.sight) IN
  /\ r.sight # NoSight /\ ~CannotRecord(r)
  /\ sighted' = [sighted EXCEPT ![p] = IF r.sight.hit.available THEN "in" ELSE "out"]
  /\ search' = [search EXCEPT ![a].sight = NoSight, ![a].finds = @ \cup finds]
  /\ newsOf' = [newsOf EXCEPT ![p] =
       IF ~r.sight.hit.available THEN 0
       ELSE IF a = "worker" /\ finds # {} THEN @ + 1 ELSE @]
  /\ settled' = IF ~r.sight.hit.available THEN settled \ {p}
                ELSE IF \/ a = "cli" \/ TooDear(r.watch, r.sight.hit)
                        \/ sighted[p] # r.sight.row
                     THEN settled \cup {p} ELSE settled
  /\ UNCHANGED <<watchRow, keywordMemory, commands, keywordDeaths, keywordClock>>

SightingsOf(r) == {<<r.watch, f.item>> : f \in r.finds}
                  \cup IF r.sending = NoFind THEN {} ELSE {<<r.watch, r.sending.item>>}

\* (slip) The flag is cleared at the end of a search that did not raise.
FlagIfRaised(raised) == raised

\* The finally block of the worker's coroutine.
FlagOnceEnded(raised) == FALSE

\* An exception ends the run: what it found is recorded and never announced.
EndRun(a, raised) ==
  /\ search' = [search EXCEPT ![a] = NoRun]
  /\ searching' = IF a = "worker" THEN FlagOnceEnded(raised) ELSE searching
  /\ settled' = IF a = "worker" THEN settled \cup SightingsOf(search[a]) ELSE settled

RecordRaises(a) ==
  /\ search[a].sight # NoSight /\ CannotRecord(search[a])
  /\ EndRun(a, TRUE)
  /\ UNCHANGED <<keywordRows, searcherUp, alertedAt, newsOf, commands,
                 keywordDeaths, keywordClock>>

\* touch_keyword_watch: last_searched_at is the time the search started.
EndSearch(a) ==
  LET r == search[a] IN
  /\ Idle(r) /\ r.sellers = {}
  /\ watchRow[r.watch].state # "none"
  /\ watchRow' = [watchRow EXCEPT ![r.watch].searched = r.since]
  /\ IF a = "worker"
     THEN /\ search' = [search EXCEPT ![a].pc = "notifying"]
          /\ UNCHANGED <<searching, settled>>
     ELSE EndRun(a, FALSE)
  /\ UNCHANGED <<sighted, searcherUp, alertedAt, newsOf, commands, keywordDeaths,
                 keywordClock>>

\* The watch is gone: the update of its row raises, or, when the row was read
\* again, the call returns early and the finds are announced all the same.
EndSearchOfDeleted(a) ==
  LET r == search[a] IN
  /\ Idle(r) /\ r.sellers = {}
  /\ watchRow[r.watch].state = "none"
  /\ \/ EndRun(a, TRUE)
     \/ /\ a = "worker"
        /\ search' = [search EXCEPT ![a].pc = "notifying"]
        /\ UNCHANGED <<searching, settled>>
  /\ UNCHANGED <<keywordRows, searcherUp, alertedAt, newsOf, commands,
                 keywordDeaths, keywordClock>>

-----------------------------------------------------------------------------
(* The alerts, one after the other, in the order of the finds. *)

Notifying == search["worker"].pc = "notifying" /\ search["worker"].sending = NoFind

Resting(f) == alertedAt[f] # 0 /\ keywordClock + 1 < alertedAt[f] + AlertRest

\* The cooldown is marked before the alert is sent.
AnnounceFind(f) ==
  LET r == search["worker"] IN
  /\ Notifying /\ f \in r.finds
  /\ IF Resting(f)
     THEN /\ search' = [search EXCEPT !["worker"].finds = @ \ {f}]
          /\ UNCHANGED alertedAt
     ELSE /\ search' = [search EXCEPT !["worker"].finds = @ \ {f},
                                      !["worker"].sending = f]
          /\ alertedAt' = [alertedAt EXCEPT ![f] = keywordClock + 1]
  /\ settled' = settled \cup {<<r.watch, f.item>>}
  /\ UNCHANGED <<keywordRows, searcherUp, searching, newsOf, commands,
                 keywordDeaths, keywordClock>>

\* Discord answers or fails: the failure is logged.
AnnouncementEnds ==
  /\ search["worker"].sending # NoFind
  /\ search' = [search EXCEPT !["worker"].sending = NoFind]
  /\ UNCHANGED <<keywordRows, keywordMemory, keywordHistory, commands,
                 keywordDeaths, keywordClock>>

EndNotifying ==
  /\ Notifying /\ search["worker"].finds = {}
  /\ EndRun("worker", FALSE)
  /\ UNCHANGED <<keywordRows, searcherUp, alertedAt, newsOf, commands,
                 keywordDeaths, keywordClock>>

\* The worker dies, with what it found and the marks of its cooldown.
KeywordDie ==
  /\ searcherUp /\ keywordDeaths < MaxKeywordDeaths
  /\ keywordDeaths' = keywordDeaths + 1
  /\ searcherUp' = FALSE /\ searching' = FALSE
  /\ alertedAt' = [f \in Find |-> 0]
  /\ search' = [search EXCEPT !["worker"] = NoRun]
  /\ settled' = settled \cup SightingsOf(search["worker"])
  /\ UNCHANGED <<keywordRows, newsOf, commands, keywordClock>>

KeywordClockTicks ==
  /\ keywordClock < MaxKeywordClock
  /\ keywordClock' = keywordClock + 1
  /\ UNCHANGED <<keywordRows, keywordMemory, search, keywordHistory, commands,
                 keywordDeaths>>

SearchSteps(a) ==
  \/ \E s \in Seller : SearchFails(a, s) \/ SearchAnswers(a, s)
  \/ \E hit \in Hit : ReadSighting(a, hit)
  \/ RecordSighting(a)
  \/ RecordRaises(a)
  \/ EndSearch(a)
  \/ EndSearchOfDeleted(a)

AlertSteps ==
  \/ \E f \in Find : AnnounceFind(f)
  \/ AnnouncementEnds
  \/ EndNotifying

KeywordNext ==
  \/ \E w \in Watch : AddWatch(w) \/ SwitchWatch(w) \/ DeleteWatch(w)
                      \/ StartCliSearch(w)
  \/ StartSearcher
  \/ StartSearch
  \/ TickWithoutSearch
  \/ \E a \in Searcher : SearchSteps(a)
  \/ AlertSteps
  \/ KeywordDie
  \/ KeywordClockTicks

\* Requests have a timeout, and the event loop resumes what can go on.
KeywordFairness == WF_keywordVars(SearchSteps("worker") \/ AlertSteps)

KeywordSpec == KeywordInit /\ [][KeywordNext]_keywordVars /\ KeywordFairness

-----------------------------------------------------------------------------
(* Properties *)

\* Type correctness, and that the flag of a search goes with the search.
KeywordTypeOK ==
  /\ watchRow \in [Watch -> [state : {"none", "enabled", "disabled"},
                             searched : 0..(MaxKeywordClock + 1)]]
  /\ sighted \in [Sighting -> {"unseen", "in", "out"}]
  /\ searching \in BOOLEAN /\ searcherUp \in BOOLEAN
  /\ searching = (search["worker"] # NoRun)
  /\ alertedAt \in [Find -> 0..(MaxKeywordClock + 1)]
  /\ \A a \in Searcher :
       /\ search[a].hits \subseteq Hit /\ search[a].finds \subseteq Find
       /\ search[a].sellers \subseteq Seller
       /\ search[a].sending \in Find \cup {NoFind}
  /\ settled \subseteq Sighting

\* A listing on record as available has been announced by the watch since it
\* was last seen out of stock, or is about to be, unless it was too dear, rested
\* in the cooldown, its run did not end, or a search of the command line recorded
\* it, before that of the worker or between its reads and its commit.
AvailableAreAnnounced ==
  \A p \in Sighting :
    sighted[p] = "in" => p \in settled \cup SightingsOf(search["worker"])

\* Neither a second search nor a restart makes news again of a listing that has
\* been available all along: the record precedes the alert.
NewsOnce == \A p \in Sighting : newsOf[p] <= 1

\* Every search ends, its flag cleared, so that the next watch can be searched.
SearchesEnd == searching ~> ~searching
=============================================================================
