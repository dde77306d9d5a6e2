-------------------------- MODULE LocalStockProofs --------------------------
(***************************************************************************)
(* Proofs about LocalStock, for any shops, listings and sweeps and any     *)
(* number of deaths: an alert follows an absence that was seen, a first    *)
(* refill loses its alert to a death only, and the deliveries keep the     *)
(* promise of Outbox.                                                      *)
(***************************************************************************)
EXTENDS LocalStock, TLAPS, FiniteSetTheorems

PassT   == [pc : {"none", "fetching", "applying", "alerting"},
            listings : SUBSET Listing, shelves : SUBSET Shelf,
            full : SUBSET Shelf, alert : Shelf \union {NoShelf}]
SweepT  == [todo : SUBSET Shelf, sending : Shelf \union {NoShelf},
            arrived : BOOLEAN, now : Nat]
LetterT == [status : Statuses, attempts : 0..LocalAttempts, retryAt : Nat]

LTypes ==
  /\ stock \in [Shelf -> StockState] /\ restock \subseteq Shelf
  /\ letter \in [Shelf -> LetterT]
  /\ localUp \in BOOLEAN /\ flying \in BOOLEAN /\ lastPass \in Nat
  /\ pass \in PassT
  /\ sweep \in [Sweeper -> SweepT]
  /\ reached \in [Shelf -> Nat]
  /\ everOut \subseteq Shelf /\ refilled \subseteq Shelf /\ cutShort \subseteq Shelf
  /\ localDeaths \in Nat /\ localClock \in Nat

\* What is known of a shelf whose state is being written, or alerted on.
PassFits ==
  /\ pass.alert # NoShelf =>
       pass.pc \in {"applying", "alerting"} /\ pass.alert \in everOut
  /\ pass.pc = "alerting" =>
       /\ pass.alert # NoShelf /\ pass.alert \in restock
       /\ letter[pass.alert] = NoLetter
  /\ pass.pc \in {"applying", "alerting"} => pass.shelves \ pass.full \subseteq everOut
  /\ \A h \in Shelf : stock[h] = "out_of_stock" => h \in everOut

\* An event without its delivery is being alerted on, or a death left it so.
EventsFit ==
  /\ restock \subseteq everOut
  /\ \A h \in Shelf : letter[h] # NoLetter => h \in restock
  /\ \A h \in restock : \/ letter[h] # NoLetter \/ h \in cutShort
                        \/ pass.pc = "alerting" /\ pass.alert = h
  /\ \A h \in refilled : letter[h] # NoLetter \/ h \in cutShort \/ pass.alert = h

FlagFits == flying <=> pass # NoPass

DeathsFit == IsFiniteSet(cutShort) /\ Cardinality(cutShort) <= localDeaths

\* No delivery has led to more messages than it had attempts.
LettersFit ==
  \A h \in Shelf :
    /\ letter[h].status = "none" => letter[h] = NoLetter
    /\ letter[h].status \in {"pending", "failed_retryable"}
         => letter[h].attempts < LocalAttempts
    /\ reached[h] <= letter[h].attempts

\* A delivery that is being sent has one sweep, and an attempt more than the
\* messages it has led to, until its own message arrives.
SendsFit ==
  \A w \in Sweeper :
    /\ sweep[w].arrived => sweep[w].sending # NoShelf
    /\ sweep[w].sending # NoShelf =>
         /\ letter[sweep[w].sending].status = "sending"
         /\ sweep[w].arrived => reached[sweep[w].sending] > 0
         /\ ~ sweep[w].arrived =>
              reached[sweep[w].sending] < letter[sweep[w].sending].attempts
         /\ \A v \in Sweeper : sweep[v].sending = sweep[w].sending => v = w

LocalInv == LTypes /\ FlagFits /\ PassFits /\ EventsFit /\ DeathsFit
            /\ LettersFit /\ SendsFit

-----------------------------------------------------------------------------
\* What passes, sweeps and deliveries are when they start, and after each step.
LEMMA NoPassIs ==
  NoPass \in PassT /\ NoPass.pc = "none" /\ NoPass.alert = NoShelf
BY DEF NoPass, PassT

LEMMA NoSweepIs ==
  NoSweep \in SweepT /\ NoSweep.sending = NoShelf /\ ~ NoSweep.arrived
BY DEF NoSweep, SweepT

LEMMA NoLetterIs ==
  NoLetter \in LetterT /\ NoLetter.status = "none" /\ NoLetter.attempts = 0
BY LocalStockAssumption DEF NoLetter, LetterT, Statuses

LEMMA LetterIs ==
  /\ Letter \in LetterT /\ Letter.status = "pending" /\ Letter.attempts = 0
  /\ Letter # NoLetter
<1>1. Letter \in LetterT /\ Letter.status = "pending" /\ Letter.attempts = 0
  BY NoLetterIs DEF Letter, LetterT, Statuses
<1> QED BY <1>1, NoLetterIs

LEMMA QueuedIs ==
  ASSUME LTypes, NEW h \in Shelf, letter' = [letter EXCEPT ![h] = Letter]
  PROVE  /\ letter' \in [Shelf -> LetterT] /\ letter'[h] = Letter
         /\ \A x \in Shelf \ {h} : letter'[x] = letter[x]
BY LetterIs DEF LTypes

LEMMA DoneWithIs ==
  ASSUME pass \in PassT, NEW l
  PROVE  /\ DoneWith(l) \in PassT /\ DoneWith(l).alert = NoShelf
         /\ DoneWith(l).pc \in {"none", "fetching"}
BY NoPassIs DEF DoneWith, PassT

LEMMA NextShelfIs ==
  ASSUME pass \in PassT, NEW h \in Shelf
  PROVE  /\ NextShelf(h) \in PassT /\ NextShelf(h).alert = NoShelf
         /\ \/ NextShelf(h).pc \in {"none", "fetching"}
            \/ /\ NextShelf(h).pc = pass.pc /\ NextShelf(h).full = pass.full
               /\ NextShelf(h).shelves \subseteq pass.shelves
<1>1. CASE pass.shelves = {h}
  <2>1. NextShelf(h) = DoneWith(h[2])
    BY <1>1 DEF NextShelf
  <2> QED BY <2>1, DoneWithIs
<1>2. CASE pass.shelves # {h}
  <2>1. NextShelf(h) = [pass EXCEPT !.shelves = @ \ {h}, !.alert = NoShelf]
    BY <1>2 DEF NextShelf
  <2> QED BY ZenonT(60), <2>1 DEF PassT
<1> QED BY <1>1, <1>2

LEMMA AnsweredIs ==
  ASSUME LTypes, NEW w \in Sweeper
  PROVE  /\ Answered(w) \in [Sweeper -> SweepT]
         /\ Answered(w)[w].sending = NoShelf /\ ~ Answered(w)[w].arrived
         /\ \A v \in Sweeper \ {w} : Answered(w)[v] = sweep[v]
<1> DEFINE s == [sweep[w] EXCEPT !.sending = NoShelf, !.arrived = FALSE]
<1>1. s \in SweepT /\ s.sending = NoShelf /\ ~ s.arrived
  BY DEF LTypes, SweepT
<1>2. Answered(w) = [sweep EXCEPT ![w] = Rested(s)]
  BY DEF Answered
<1> HIDE DEF s
<1>3. Rested(s) \in SweepT /\ Rested(s).sending = NoShelf /\ ~ Rested(s).arrived
  BY <1>1, NoSweepIs DEF Rested
<1> QED BY <1>2, <1>3 DEF LTypes

LEMMA ClaimedIs ==
  ASSUME LTypes, LettersFit, NEW h \in Shelf,
         letter[h].status \in {"pending", "failed_retryable"},
         letter' = [letter EXCEPT ![h].status = "sending", ![h].attempts = @ + 1]
  PROVE  /\ letter' \in [Shelf -> LetterT]
         /\ letter'[h].status = "sending" /\ letter'[h].attempts = letter[h].attempts + 1
         /\ letter[h] # NoLetter /\ letter'[h] # NoLetter
         /\ \A x \in Shelf \ {h} : letter'[x] = letter[x]
<1>1. letter[h] \in LetterT /\ letter[h].attempts + 1 \in 0..LocalAttempts
  BY LocalStockAssumption DEF LTypes, LettersFit, LetterT
<1> QED BY <1>1, NoLetterIs DEF LTypes, LetterT, Statuses

LEMMA SettledIs ==
  ASSUME LTypes, NEW h \in Shelf, letter[h].status = "sending",
         letter' = [letter EXCEPT ![h].status = "sent"]
  PROVE  /\ letter' \in [Shelf -> LetterT]
         /\ letter'[h].status = "sent" /\ letter'[h].attempts = letter[h].attempts
         /\ letter[h] # NoLetter /\ letter'[h] # NoLetter
         /\ \A x \in Shelf \ {h} : letter'[x] = letter[x]
BY NoLetterIs DEF LTypes, LetterT, Statuses

-----------------------------------------------------------------------------
\* Each step of a pass, of a sweep and of the world keeps the invariant.
LEMMA LocalInvStep == LocalInv /\ [LocalNext]_localVars => LocalInv'
<1> USE LocalStockAssumption
<1> SUFFICES ASSUME LTypes, FlagFits, PassFits, EventsFit, DeathsFit, LettersFit,
                    SendsFit, [LocalNext]_localVars
             PROVE  LocalInv'
  BY DEF LocalInv
<1>1. CASE StartLocalWorker
  <2>a. /\ localUp' = TRUE
    BY <1>1 DEF StartLocalWorker, localRows, localMemory, localHistory
  <2>b. UNCHANGED <<stock, restock, letter, flying, lastPass, pass,
                  sweep, reached, everOut, refilled, cutShort, localDeaths,
                  localClock>>
    BY <1>1 DEF StartLocalWorker, localRows, localMemory, localHistory
  <2>1. LTypes'
    BY <2>a, <2>b DEF LTypes
  <2>2. FlagFits'
    BY <2>a, <2>b DEF LTypes, FlagFits
  <2>3. PassFits'
    BY <2>a, <2>b DEF LTypes, PassFits
  <2>4. EventsFit'
    BY <2>a, <2>b DEF LTypes, PassFits, EventsFit
  <2>5. DeathsFit'
    BY <2>a, <2>b DEF DeathsFit
  <2>6. LettersFit'
    BY <2>a, <2>b DEF LTypes, LettersFit
  <2>7. SendsFit'
    BY <2>a, <2>b DEF LTypes, SweepT, SendsFit
  <2> QED BY <2>1, <2>2, <2>3, <2>4, <2>5, <2>6, <2>7 DEF LocalInv
<1>2. CASE TickWithoutPass
  <2>b. UNCHANGED <<stock, restock, letter, localUp, flying,
                  lastPass, pass, sweep, reached, everOut, refilled, cutShort,
                  localDeaths, localClock>>
    BY <1>2 DEF TickWithoutPass, localVars, localRows, localMemory, localHistory
  <2>1. LTypes'
    BY <2>b DEF LTypes
  <2>2. FlagFits'
    BY <2>b DEF LTypes, FlagFits
  <2>3. PassFits'
    BY <2>b DEF LTypes, PassFits
  <2>4. EventsFit'
    BY <2>b DEF LTypes, PassFits, EventsFit
  <2>5. DeathsFit'
    BY <2>b DEF DeathsFit
  <2>6. LettersFit'
    BY <2>b DEF LTypes, LettersFit
  <2>7. SendsFit'
    BY <2>b DEF LTypes, SweepT, SendsFit
  <2> QED BY <2>1, <2>2, <2>3, <2>4, <2>5, <2>6, <2>7 DEF LocalInv
<1>3. CASE StartPass
  <2>a. /\ flying' = TRUE /\ lastPass' = localClock + 1
        /\ pass' \in PassT
        /\ pass'.pc = "fetching" /\ pass'.alert = NoShelf
        /\ pass.alert = NoShelf
    <3>1. pass' = [NoPass EXCEPT !.pc = "fetching", !.listings = Listing]
      BY <1>3 DEF StartPass
    <3>2. pass.alert = NoShelf
      BY <1>3, NoPassIs DEF StartPass, PassIsDue, FlagFits
    <3> QED BY <1>3, <3>1, <3>2, NoPassIs DEF StartPass, PassT, localRows, localHistory
  <2>b. UNCHANGED <<stock, restock, letter, localUp, sweep, reached,
                  everOut, refilled, cutShort, localDeaths, localClock>>
    BY <1>3 DEF StartPass, localRows, localMemory, localHistory
  <2>1. LTypes'
    BY <2>a, <2>b DEF LTypes
  <2>2. FlagFits'
    BY <2>a, <2>b, NoPassIs DEF LTypes, FlagFits
  <2>3. PassFits'
    BY <2>a, <2>b DEF LTypes, PassFits
  <2>4. EventsFit'
    BY <2>a, <2>b DEF LTypes, PassFits, EventsFit
  <2>5. DeathsFit'
    BY <2>a, <2>b DEF DeathsFit
  <2>6. LettersFit'
    BY <2>a, <2>b DEF LTypes, LettersFit
  <2>7. SendsFit'
    BY <2>a, <2>b DEF LTypes, SweepT, SendsFit
  <2> QED BY <2>1, <2>2, <2>3, <2>4, <2>5, <2>6, <2>7 DEF LocalInv
<1>4. ASSUME NEW l \in Listing, FetchFails(l)
      PROVE  LocalInv'
  <2>a. /\ flying' = (pass' # NoPass)
        /\ pass' = DoneWith(l)
        /\ pass.pc = "fetching"
    BY <1>4 DEF FetchFails, SkipListing, FlagAfter, localRows, localMemory,
       localHistory
  <2>b. UNCHANGED <<stock, restock, letter, localUp, lastPass,
                  sweep, reached, everOut, refilled, cutShort, localDeaths,
                  localClock>>
    BY <1>4 DEF FetchFails, SkipListing, FlagAfter, localRows, localMemory,
       localHistory
  <2>1. LTypes'
    BY <2>a, <2>b, DoneWithIs DEF LTypes
  <2>2. FlagFits'
    BY <2>a, <2>b, DoneWithIs DEF LTypes, FlagFits
  <2>3. PassFits'
    BY <2>a, <2>b, DoneWithIs DEF LTypes, PassFits
  <2>4. EventsFit'
    BY <2>a, <2>b, DoneWithIs DEF LTypes, PassFits, EventsFit
  <2>5. DeathsFit'
    BY <2>a, <2>b, DoneWithIs DEF DeathsFit
  <2>6. LettersFit'
    BY <2>a, <2>b, DoneWithIs DEF LTypes, LettersFit
  <2>7. SendsFit'
    BY <2>a, <2>b, DoneWithIs DEF LTypes, SweepT, SendsFit
  <2> QED BY <2>1, <2>2, <2>3, <2>4, <2>5, <2>6, <2>7 DEF LocalInv
<1>5. CASE FetchRaises
  <2>a. /\ flying' = FALSE
        /\ pass' = NoPass
        /\ pass.pc = "fetching"
    BY <1>5 DEF FetchRaises, FlagAfter, localRows, localMemory, localHistory
  <2>b. UNCHANGED <<stock, restock, letter, localUp, lastPass,
                  sweep, reached, everOut, refilled, cutShort, localDeaths,
                  localClock>>
    BY <1>5 DEF FetchRaises, FlagAfter, localRows, localMemory, localHistory
  <2>1. LTypes'
    BY <2>a, <2>b, NoPassIs DEF LTypes
  <2>2. FlagFits'
    BY <2>a, <2>b, NoPassIs DEF LTypes, FlagFits
  <2>3. PassFits'
    BY <2>a, <2>b, NoPassIs DEF LTypes, PassFits
  <2>4. EventsFit'
    BY <2>a, <2>b, NoPassIs DEF LTypes, PassFits, EventsFit
  <2>5. DeathsFit'
    BY <2>a, <2>b, NoPassIs DEF DeathsFit
  <2>6. LettersFit'
    BY <2>a, <2>b, NoPassIs DEF LTypes, LettersFit
  <2>7. SendsFit'
    BY <2>a, <2>b, NoPassIs DEF LTypes, SweepT, SendsFit
  <2> QED BY <2>1, <2>2, <2>3, <2>4, <2>5, <2>6, <2>7 DEF LocalInv
<1>6. ASSUME NEW l \in Listing, Fetch(l)
      PROVE  LocalInv'
  <2>a. /\ pass' \in PassT
        /\ pass'.pc = "applying" /\ pass'.alert = NoShelf /\ pass' # NoPass
        /\ pass.pc = "fetching"
        /\ everOut \subseteq everOut' /\ everOut' \subseteq Shelf
        /\ pass'.shelves \ pass'.full \subseteq everOut'
    <3>1. PICK full \in SUBSET (Store \X {l}) :
            /\ pass' = [pass EXCEPT !.pc = "applying", !.shelves = Store \X {l},
                                    !.full = full]
            /\ everOut' = everOut \union ((Store \X {l}) \ full)
      BY <1>6 DEF Fetch
    <3>2. Store \X {l} \in SUBSET Shelf /\ full \in SUBSET Shelf
      BY DEF Shelf
    <3>3. pass.pc = "fetching" /\ pass.alert = NoShelf
      BY <1>6 DEF Fetch, PassFits
    <3>4. /\ pass' \in PassT /\ pass'.pc = "applying" /\ pass'.alert = NoShelf
          /\ pass'.shelves = Store \X {l} /\ pass'.full = full
      BY <3>1, <3>2, <3>3 DEF LTypes, PassT
    <3> QED BY <1>6, <3>1, <3>2, <3>3, <3>4, NoPassIs DEF Fetch, LTypes, localRows, localMemory
  <2>b. UNCHANGED <<stock, restock, letter, localUp, flying,
                  lastPass, sweep, reached, refilled, cutShort, localDeaths,
                  localClock>>
    BY <1>6 DEF Fetch, localRows, localMemory, localHistory
  <2>1. LTypes'
    BY <2>a, <2>b DEF LTypes
  <2>2. FlagFits'
    BY <2>a, <2>b, NoPassIs DEF LTypes, FlagFits
  <2>3. PassFits'
    BY <2>a, <2>b DEF LTypes, PassFits
  <2>4. EventsFit'
    BY <2>a, <2>b DEF LTypes, PassFits, EventsFit
  <2>5. DeathsFit'
    BY <2>a, <2>b DEF DeathsFit
  <2>6. LettersFit'
    BY <2>a, <2>b DEF LTypes, LettersFit
  <2>7. SendsFit'
    BY <2>a, <2>b DEF LTypes, SweepT, SendsFit
  <2> QED BY <2>1, <2>2, <2>3, <2>4, <2>5, <2>6, <2>7 DEF LocalInv
<1>7. ASSUME NEW h \in Shelf, ApplyState(h)
      PROVE  LocalInv'
  <2>a. /\ pass.pc = "applying" /\ pass.alert = NoShelf /\ h \in pass.shelves
        /\ stock' \in [Shelf -> StockState] /\ \A x \in Shelf \ {h} : stock'[x] = stock[x]
        /\ stock'[h] = "out_of_stock" => h \notin pass.full
        /\ refilled' \subseteq Shelf /\ refilled' \subseteq refilled \union {h}
        /\ \/ /\ pass' \in PassT /\ pass'.alert = h /\ pass'.pc = "applying"
              /\ pass'.shelves = pass.shelves /\ pass'.full = pass.full
              /\ flying' = flying /\ stock[h] = "out_of_stock"
           \/ /\ pass' = NextShelf(h) /\ flying' = (pass' # NoPass)
              /\ refilled' = refilled
    <3> DEFINE new == IF h \in pass.full THEN "click_and_collect" ELSE "out_of_stock"
    <3>1. new \in StockState /\ (new = "out_of_stock" <=> h \notin pass.full)
      BY DEF StockState
    <3>2. stock' = [stock EXCEPT ![h] = new]
      BY <1>7 DEF ApplyState
    <3>3. Refilled(stock[h], new) <=> stock[h] = "out_of_stock" /\ h \in pass.full
      BY DEF Refilled
    <3>4. CASE Refilled(stock[h], new)
      <4>1. pass' = [pass EXCEPT !.alert = h] /\ flying' = flying
        BY <1>7, <3>4 DEF ApplyState
      <4>2. refilled' = refilled \union {h}
        BY <1>7, <3>3, <3>4 DEF ApplyState
      <4>3. stock[h] = "out_of_stock" /\ pass.pc = "applying" /\ pass.alert = NoShelf
            /\ h \in pass.shelves
        BY <1>7, <3>3, <3>4 DEF ApplyState
      <4> HIDE DEF new
      <4> QED BY <3>1, <3>2, <4>1, <4>2, <4>3 DEF LTypes, PassT
    <3>5. CASE ~ Refilled(stock[h], new)
      <4>1. pass' = NextShelf(h) /\ flying' = (pass' # NoPass)
        BY <1>7, <3>5 DEF ApplyState, FlagAfter
      <4>2. refilled' = refilled
        BY <1>7, <3>3, <3>5 DEF ApplyState
      <4>3. pass.pc = "applying" /\ pass.alert = NoShelf /\ h \in pass.shelves
        BY <1>7 DEF ApplyState
      <4> HIDE DEF new
      <4> QED BY <3>1, <3>2, <4>1, <4>2, <4>3 DEF LTypes
    <3> QED BY <3>4, <3>5
  <2>b. UNCHANGED <<restock, letter, localUp, lastPass, sweep,
                  reached, everOut, cutShort, localDeaths, localClock>>
    BY <1>7 DEF ApplyState, localRows, localMemory, localHistory
  <2>1. LTypes'
    BY <2>a, <2>b, NextShelfIs, NoPassIs DEF LTypes
  <2>2. FlagFits'
    BY <2>a, <2>b, NextShelfIs, NoPassIs DEF LTypes, FlagFits
  <2>3. PassFits'
    BY <2>a, <2>b, NextShelfIs, NoPassIs DEF LTypes, PassFits
  <2>4. EventsFit'
    BY <2>a, <2>b, NextShelfIs, NoPassIs DEF LTypes, PassFits, EventsFit
  <2>5. DeathsFit'
    BY <2>a, <2>b, NextShelfIs, NoPassIs DEF DeathsFit
  <2>6. LettersFit'
    BY <2>a, <2>b, NextShelfIs, NoPassIs DEF LTypes, LettersFit
  <2>7. SendsFit'
    BY <2>a, <2>b, NextShelfIs, NoPassIs DEF LTypes, SweepT, SendsFit
  <2> QED BY <2>1, <2>2, <2>3, <2>4, <2>5, <2>6, <2>7 DEF LocalInv
<1>8. CASE ApplyEvent
  <2>a. /\ pass.pc = "applying" /\ pass.alert # NoShelf /\ pass.alert \in Shelf
        /\ \/ /\ pass.alert \in restock /\ restock' = restock
              /\ pass' = NextShelf(pass.alert) /\ flying' = (pass' # NoPass)
           \/ /\ pass.alert \notin restock /\ restock' = restock \union {pass.alert}
              /\ pass' \in PassT /\ pass'.pc = "alerting" /\ pass'.alert = pass.alert
              /\ pass'.shelves = pass.shelves /\ pass'.full = pass.full
              /\ flying' = flying
    <3>1. pass.pc = "applying" /\ pass.alert # NoShelf /\ pass.alert \in Shelf
      BY <1>8 DEF ApplyEvent, LTypes, PassT
    <3>2. CASE pass.alert \in restock
      BY <1>8, <3>1, <3>2 DEF ApplyEvent, FlagAfter
    <3>3. CASE pass.alert \notin restock
      <4>1. pass' = [pass EXCEPT !.pc = "alerting"] /\ flying' = flying
            /\ restock' = restock \union {pass.alert}
        BY <1>8, <3>3 DEF ApplyEvent
      <4> QED BY <3>1, <3>3, <4>1 DEF LTypes, PassT
    <3> QED BY <3>2, <3>3
  <2>b. UNCHANGED <<stock, letter, localUp, lastPass, sweep,
                  reached, everOut, refilled, cutShort, localDeaths,
                  localClock>>
    BY <1>8 DEF ApplyEvent, localRows, localMemory, localHistory
  <2>1. LTypes'
    BY <2>a, <2>b, NextShelfIs, NoPassIs DEF LTypes
  <2>2. FlagFits'
    BY <2>a, <2>b, NextShelfIs, NoPassIs DEF LTypes, FlagFits
  <2>3. PassFits'
    <3>1. CASE pass.alert \in restock
      BY <2>a, <2>b, <3>1, NextShelfIs DEF LTypes, PassFits
    <3>2. CASE pass.alert \notin restock
      <4>1. letter[pass.alert] = NoLetter
        BY <2>a, <3>2 DEF EventsFit
      <4> QED BY <2>a, <2>b, <3>2, <4>1 DEF LTypes, PassFits
    <3> QED BY <3>1, <3>2
  <2>4. EventsFit'
    <3>1. CASE pass.alert \in restock
      BY <2>a, <2>b, <3>1, NextShelfIs DEF LTypes, PassFits, EventsFit
    <3>2. CASE pass.alert \notin restock
      BY <2>a, <2>b, <3>2 DEF LTypes, PassFits, EventsFit
    <3> QED BY <3>1, <3>2
  <2>5. DeathsFit'
    BY <2>a, <2>b, NextShelfIs, NoPassIs DEF DeathsFit
  <2>6. LettersFit'
    BY <2>a, <2>b, NextShelfIs, NoPassIs DEF LTypes, LettersFit
  <2>7. SendsFit'
    BY <2>a, <2>b, NextShelfIs, NoPassIs DEF LTypes, SweepT, SendsFit
  <2> QED BY <2>1, <2>2, <2>3, <2>4, <2>5, <2>6, <2>7 DEF LocalInv
<1>9. CASE ApplyDelivery
  <2>a. /\ pass.pc = "alerting" /\ pass.alert \in Shelf /\ pass.alert # NoShelf
        /\ letter' = [letter EXCEPT ![pass.alert] = Letter]
        /\ pass' \in PassT /\ pass'.alert = NoShelf /\ pass'.pc # "alerting"
        /\ pass'.pc = "applying" => pass'.shelves \subseteq pass.shelves /\ pass'.full = pass.full
        /\ flying' = (pass' # NoPass)
    <3>1. pass.pc = "alerting" /\ pass.alert \in Shelf /\ pass.alert # NoShelf
      BY <1>9 DEF ApplyDelivery, PassFits, LTypes, PassT
    <3> DEFINE next == NextShelf(pass.alert)
    <3>2. /\ next \in PassT /\ next.alert = NoShelf
          /\ \/ next.pc \in {"none", "fetching"}
             \/ next.pc = pass.pc /\ next.shelves \subseteq pass.shelves /\ next.full = pass.full
      BY <3>1, NextShelfIs DEF LTypes
    <3>3. pass' = [next EXCEPT !.pc = IF @ = "alerting" THEN "applying" ELSE @]
      BY <1>9 DEF ApplyDelivery
    <3> HIDE DEF next
    <3>4. /\ pass' \in PassT /\ pass'.alert = NoShelf /\ pass'.pc # "alerting"
          /\ pass'.pc = "applying" => /\ pass'.shelves \subseteq pass.shelves
                                       /\ pass'.full = pass.full
      BY <3>1, <3>2, <3>3 DEF PassT
    <3> QED BY <1>9, <3>1, <3>4 DEF ApplyDelivery, FlagAfter
  <2>b. UNCHANGED <<stock, restock, localUp, lastPass, sweep,
                  reached, everOut, refilled, cutShort, localDeaths,
                  localClock>>
    BY <1>9 DEF ApplyDelivery, localRows, localMemory, localHistory
  <2>1. LTypes'
    BY <2>a, <2>b, QueuedIs, LetterIs, NoLetterIs DEF LTypes
  <2>2. FlagFits'
    BY <2>a, <2>b, QueuedIs, LetterIs, NoLetterIs DEF LTypes, FlagFits
  <2>3. PassFits'
    BY <2>a, <2>b, QueuedIs, LetterIs, NoLetterIs DEF LTypes, PassFits
  <2>4. EventsFit'
    BY <2>a, <2>b, QueuedIs, LetterIs, NoLetterIs DEF LTypes, PassFits, EventsFit
  <2>5. DeathsFit'
    BY <2>a, <2>b, QueuedIs, LetterIs, NoLetterIs DEF DeathsFit
  <2>6. LettersFit'
    <3> SUFFICES ASSUME NEW x \in Shelf
                 PROVE  /\ letter'[x].status = "none" => letter'[x] = NoLetter
                        /\ letter'[x].status \in {"pending", "failed_retryable"}
                             => letter'[x].attempts < LocalAttempts
                        /\ reached[x] <= letter'[x].attempts
      BY <2>b DEF LettersFit
    <3>1. CASE x = pass.alert
      <4>1. letter[x] = NoLetter /\ letter'[x] = Letter
        BY <2>a, <3>1, QueuedIs DEF PassFits
      <4>2. reached[x] <= 0
        BY <4>1, NoLetterIs DEF LettersFit
      <4> QED BY <4>1, <4>2, LetterIs
    <3>2. CASE x # pass.alert
      BY <2>a, <3>2, QueuedIs DEF LettersFit
    <3> QED BY <3>1, <3>2
  <2>7. SendsFit'
    <3>1. ASSUME NEW w \in Sweeper, sweep[w].sending # NoShelf
          PROVE  letter'[sweep[w].sending] = letter[sweep[w].sending]
      <4>1. letter[sweep[w].sending].status = "sending" /\ sweep[w].sending \in Shelf
        BY <3>1 DEF SendsFit, LTypes, SweepT
      <4>2. letter[pass.alert].status = "none"
        BY <2>a, NoLetterIs DEF PassFits
      <4> QED BY <2>a, <4>1, <4>2, QueuedIs
    <3> QED BY <2>b, <3>1 DEF SendsFit
  <2> QED BY <2>1, <2>2, <2>3, <2>4, <2>5, <2>6, <2>7 DEF LocalInv
<1>10. ASSUME NEW w \in Sweeper, StartSweep(w)
      PROVE  LocalInv'
  <2>a. /\ sweep' \in [Sweeper -> SweepT]
        /\ sweep'[w].sending = NoShelf /\ ~ sweep'[w].arrived
        /\ \A v \in Sweeper \ {w} : sweep'[v] = sweep[v]
    <3> DEFINE s == [todo |-> {h \in Shelf : LetterDue(h, localClock)},
                     sending |-> NoShelf, arrived |-> FALSE, now |-> localClock]
    <3>1. s \in SweepT /\ s.sending = NoShelf /\ ~ s.arrived
      BY DEF LTypes, SweepT
    <3>2. sweep' = [sweep EXCEPT ![w] = s]
      BY <1>10 DEF StartSweep
    <3> HIDE DEF s
    <3> QED BY <3>1, <3>2 DEF LTypes
  <2>b. UNCHANGED <<stock, restock, letter, localUp, flying,
                  lastPass, pass, reached, everOut, refilled, cutShort,
                  localDeaths, localClock>>
    BY <1>10 DEF StartSweep, localRows, localMemory, localHistory
  <2>1. LTypes'
    BY <2>a, <2>b DEF LTypes
  <2>2. FlagFits'
    BY <2>a, <2>b DEF LTypes, FlagFits
  <2>3. PassFits'
    BY <2>a, <2>b DEF LTypes, PassFits
  <2>4. EventsFit'
    BY <2>a, <2>b DEF LTypes, PassFits, EventsFit
  <2>5. DeathsFit'
    BY <2>a, <2>b DEF DeathsFit
  <2>6. LettersFit'
    BY <2>a, <2>b DEF LTypes, LettersFit
  <2>7. SendsFit'
    BY <2>a, <2>b DEF LTypes, SweepT, SendsFit
  <2> QED BY <2>1, <2>2, <2>3, <2>4, <2>5, <2>6, <2>7 DEF LocalInv
<1>11. ASSUME NEW w \in Sweeper, NEW h \in Shelf, ClaimLetter(w, h)
      PROVE  LocalInv'
  <2>a. /\ sweep[w].sending = NoShelf
        /\ letter' \in [Shelf -> LetterT]
        /\ \A x \in Shelf : letter'[x] = NoLetter <=> letter[x] = NoLetter
        /\ sweep' \in [Sweeper -> SweepT]
        /\ \A v \in Sweeper \ {w} : sweep'[v] = sweep[v]
        /\ ~ sweep'[w].arrived
        /\ \/ /\ letter[h].status \in {"pending", "failed_retryable"}
              /\ letter'[h].status = "sending" /\ letter'[h].attempts = letter[h].attempts + 1
              /\ \A x \in Shelf \ {h} : letter'[x] = letter[x]
              /\ sweep'[w].sending = h
           \/ letter' = letter /\ sweep'[w].sending = NoShelf
    <3>1. /\ sweep[w] \in SweepT /\ sweep[w].sending = NoShelf
          /\ h \in sweep[w].todo /\ ~ sweep[w].arrived
      BY <1>11 DEF ClaimLetter, LTypes, SendsFit
    <3>2. CASE LetterDue(h, sweep[w].now)
      <4> DEFINE s == [sweep[w] EXCEPT !.todo = sweep[w].todo \ {h}, !.sending = h]
      <4>1. s \in SweepT /\ s.sending = h /\ ~ s.arrived
        BY <3>1 DEF SweepT
      <4>2. sweep' = [sweep EXCEPT ![w] = s]
        BY <1>11, <3>2 DEF ClaimLetter
      <4> HIDE DEF s
      <4>3. /\ letter[h].status \in {"pending", "failed_retryable"}
            /\ letter' = [letter EXCEPT ![h].status = "sending", ![h].attempts = @ + 1]
        BY <1>11, <3>2 DEF ClaimLetter, LetterDue
      <4>4. /\ sweep' \in [Sweeper -> SweepT] /\ sweep'[w] = s
            /\ \A v \in Sweeper \ {w} : sweep'[v] = sweep[v]
        BY <4>1, <4>2 DEF LTypes
      <4>5. /\ letter' \in [Shelf -> LetterT] /\ letter'[h].status = "sending"
            /\ letter'[h].attempts = letter[h].attempts + 1
            /\ letter[h] # NoLetter /\ letter'[h] # NoLetter
            /\ \A x \in Shelf \ {h} : letter'[x] = letter[x]
        BY <4>3, ClaimedIs
      <4> QED BY <3>1, <4>1, <4>3, <4>4, <4>5
    <3>3. CASE ~ LetterDue(h, sweep[w].now)
      <4> DEFINE s == [sweep[w] EXCEPT !.todo = sweep[w].todo \ {h}]
      <4>1. s \in SweepT /\ s.sending = NoShelf /\ ~ s.arrived
        BY <3>1 DEF SweepT
      <4>2. sweep' = [sweep EXCEPT ![w] = Rested(s)] /\ letter' = letter
        BY <1>11, <3>3 DEF ClaimLetter
      <4> HIDE DEF s
      <4>3. Rested(s) \in SweepT /\ Rested(s).sending = NoShelf /\ ~ Rested(s).arrived
        BY <4>1, NoSweepIs DEF Rested
      <4>4. /\ sweep' \in [Sweeper -> SweepT] /\ sweep'[w] = Rested(s)
            /\ \A v \in Sweeper \ {w} : sweep'[v] = sweep[v]
        BY <4>2, <4>3 DEF LTypes
      <4> QED BY <3>1, <4>2, <4>3, <4>4 DEF LTypes
    <3> QED BY <3>2, <3>3
  <2>b. UNCHANGED <<stock, restock, localUp, flying, lastPass, pass,
                  reached, everOut, refilled, cutShort, localDeaths,
                  localClock>>
    BY <1>11 DEF ClaimLetter, localRows, localMemory, localHistory
  <2>1. LTypes'
    BY <2>a, <2>b DEF LTypes
  <2>2. FlagFits'
    BY <2>a, <2>b DEF LTypes, FlagFits
  <2>3. PassFits'
    BY <2>a, <2>b DEF LTypes, PassFits
  <2>4. EventsFit'
    BY <2>a, <2>b DEF LTypes, PassFits, EventsFit
  <2>5. DeathsFit'
    BY <2>a, <2>b DEF DeathsFit
  <2>6. LettersFit'
    <3> SUFFICES ASSUME NEW x \in Shelf
                 PROVE  /\ letter'[x].status = "none" => letter'[x] = NoLetter
                        /\ letter'[x].status \in {"pending", "failed_retryable"}
                             => letter'[x].attempts < LocalAttempts
                        /\ reached[x] <= letter'[x].attempts
      BY <2>b DEF LettersFit
    <3>1. CASE letter'[x] = letter[x]
      BY <3>1 DEF LettersFit
    <3>2. CASE letter'[x].status = "sending" /\ letter'[x].attempts = letter[x].attempts + 1
      <4>1. reached[x] <= letter[x].attempts /\ reached[x] \in Nat /\ letter[x].attempts \in Nat
        BY DEF LettersFit, LTypes, LetterT
      <4> QED BY <3>2, <4>1
    <3> QED BY <2>a, <3>1, <3>2
  <2>7. SendsFit'
    <3>1. CASE letter' = letter /\ sweep'[w].sending = NoShelf
      BY <2>a, <2>b, <3>1 DEF SendsFit, LTypes, SweepT
    <3>2. CASE /\ letter[h].status \in {"pending", "failed_retryable"}
               /\ letter'[h].status = "sending"
               /\ letter'[h].attempts = letter[h].attempts + 1
               /\ \A x \in Shelf \ {h} : letter'[x] = letter[x]
               /\ sweep'[w].sending = h
      <4>1. reached[h] < letter'[h].attempts
        BY <3>2 DEF LettersFit, LTypes, LetterT
      <4>2. \A v \in Sweeper : sweep[v].sending # h
        BY <3>2 DEF SendsFit
      <4>3. \A v \in Sweeper : sweep[v].sending \in Shelf \union {NoShelf}
        BY DEF LTypes, SweepT
      <4>4. ASSUME NEW v \in Sweeper \ {w}, sweep[v].sending # NoShelf
            PROVE  letter'[sweep[v].sending] = letter[sweep[v].sending]
        BY <3>2, <4>2, <4>3, <4>4
      <4> QED BY <2>a, <2>b, <3>2, <4>1, <4>2, <4>4 DEF SendsFit
    <3> QED BY <2>a, <3>1, <3>2
  <2> QED BY <2>1, <2>2, <2>3, <2>4, <2>5, <2>6, <2>7 DEF LocalInv
<1>12. ASSUME NEW w \in Sweeper, LetterArrives(w)
      PROVE  LocalInv'
  <2>a. /\ sweep[w].sending \in Shelf /\ sweep[w].sending # NoShelf /\ ~ sweep[w].arrived
        /\ reached' = [reached EXCEPT ![sweep[w].sending] = @ + 1]
        /\ sweep' \in [Sweeper -> SweepT] /\ sweep'[w].sending = sweep[w].sending /\ sweep'[w].arrived
        /\ \A v \in Sweeper \ {w} : sweep'[v] = sweep[v]
    <3>1. sweep[w] \in SweepT /\ sweep[w].sending # NoShelf /\ sweep[w].sending \in Shelf
      BY <1>12 DEF LetterArrives, LTypes, SweepT
    <3>2. sweep' = [sweep EXCEPT ![w].arrived = TRUE]
      BY <1>12 DEF LetterArrives
    <3>3. sweep' \in [Sweeper -> SweepT] /\ sweep'[w].sending = sweep[w].sending
          /\ sweep'[w].arrived /\ \A v \in Sweeper \ {w} : sweep'[v] = sweep[v]
      BY <3>1, <3>2 DEF LTypes, SweepT
    <3> QED BY <1>12, <3>1, <3>3 DEF LetterArrives
  <2>b. UNCHANGED <<stock, restock, letter, localUp, flying,
                  lastPass, pass, everOut, refilled, cutShort, localDeaths,
                  localClock>>
    BY <1>12 DEF LetterArrives, localRows, localMemory, localHistory
  <2>1. LTypes'
    BY <2>a, <2>b DEF LTypes
  <2>2. FlagFits'
    BY <2>a, <2>b DEF LTypes, FlagFits
  <2>3. PassFits'
    BY <2>a, <2>b DEF LTypes, PassFits
  <2>4. EventsFit'
    BY <2>a, <2>b DEF LTypes, PassFits, EventsFit
  <2>5. DeathsFit'
    BY <2>a, <2>b DEF DeathsFit
  <2>6. LettersFit'
    <3> SUFFICES ASSUME NEW x \in Shelf
                 PROVE  reached'[x] <= letter[x].attempts
      BY <2>b DEF LettersFit
    <3>1. reached[x] \in Nat /\ letter[x].attempts \in Nat
      BY DEF LTypes, LetterT
    <3>2. CASE x = sweep[w].sending
      <4>1. reached[x] < letter[x].attempts
        BY <2>a, <3>2 DEF SendsFit
      <4>2. reached'[x] = reached[x] + 1
        BY <2>a, <3>2 DEF LTypes
      <4> QED BY <3>1, <4>1, <4>2
    <3>3. CASE x # sweep[w].sending
      <4>1. reached'[x] = reached[x]
        BY <2>a, <3>3 DEF LTypes
      <4> QED BY <4>1 DEF LettersFit
    <3> QED BY <3>2, <3>3
  <2>7. SendsFit'
    BY <2>a, <2>b DEF LTypes, SweepT, SendsFit
  <2> QED BY <2>1, <2>2, <2>3, <2>4, <2>5, <2>6, <2>7 DEF LocalInv
<1>13. ASSUME NEW w \in Sweeper, LetterSent(w)
      PROVE  LocalInv'
  <2>a. /\ sweep[w].sending \in Shelf /\ sweep[w].sending # NoShelf
        /\ sweep' \in [Sweeper -> SweepT] /\ sweep'[w].sending = NoShelf /\ ~ sweep'[w].arrived
        /\ \A v \in Sweeper \ {w} : sweep'[v] = sweep[v]
        /\ letter' \in [Shelf -> LetterT]
        /\ \A x \in Shelf : letter'[x] = NoLetter <=> letter[x] = NoLetter
        /\ letter[sweep[w].sending].status = "sending" /\ letter'[sweep[w].sending].status = "sent"
        /\ letter'[sweep[w].sending].attempts = letter[sweep[w].sending].attempts
        /\ \A x \in Shelf \ {sweep[w].sending} : letter'[x] = letter[x]
    <3>1. /\ sweep[w].sending # NoShelf /\ sweep[w].sending \in Shelf
          /\ letter[sweep[w].sending].status = "sending"
      BY <1>13 DEF LetterSent, LTypes, SweepT, SendsFit
    <3> DEFINE h == sweep[w].sending
    <3>2. letter' = [letter EXCEPT ![h].status = "sent"] /\ sweep' = Answered(w)
      BY <1>13 DEF LetterSent
    <3> HIDE DEF h
    <3>3. /\ letter' \in [Shelf -> LetterT]
          /\ letter'[h].status = "sent" /\ letter'[h].attempts = letter[h].attempts
          /\ letter[h] # NoLetter /\ letter'[h] # NoLetter
          /\ \A x \in Shelf \ {h} : letter'[x] = letter[x]
      BY <3>1, <3>2, SettledIs DEF h
    <3> QED BY <3>1, <3>2, <3>3, AnsweredIs DEF h
  <2>b. UNCHANGED <<stock, restock, localUp, flying, lastPass, pass,
                  reached, everOut, refilled, cutShort, localDeaths,
                  localClock>>
    BY <1>13 DEF LetterSent, localRows, localMemory, localHistory
  <2>1. LTypes'
    BY <2>a, <2>b DEF LTypes
  <2>2. FlagFits'
    BY <2>a, <2>b DEF LTypes, FlagFits
  <2>3. PassFits'
    BY <2>a, <2>b DEF LTypes, PassFits
  <2>4. EventsFit'
    BY <2>a, <2>b DEF LTypes, PassFits, EventsFit
  <2>5. DeathsFit'
    BY <2>a, <2>b DEF DeathsFit
  <2>6. LettersFit'
    BY <2>a, <2>b DEF LTypes, LettersFit
  <2>7. SendsFit'
    BY <2>a, <2>b DEF LTypes, SweepT, SendsFit
  <2> QED BY <2>1, <2>2, <2>3, <2>4, <2>5, <2>6, <2>7 DEF LocalInv
<1>14. ASSUME NEW w \in Sweeper, LetterFailed(w)
      PROVE  LocalInv'
  <2>a. /\ sweep[w].sending \in Shelf /\ sweep[w].sending # NoShelf
        /\ sweep' \in [Sweeper -> SweepT] /\ sweep'[w].sending = NoShelf /\ ~ sweep'[w].arrived
        /\ \A v \in Sweeper \ {w} : sweep'[v] = sweep[v]
        /\ letter' \in [Shelf -> LetterT]
        /\ \A x \in Shelf : letter'[x] = NoLetter <=> letter[x] = NoLetter
        /\ letter[sweep[w].sending].status = "sending"
        /\ letter'[sweep[w].sending].status \in {"failed_retryable", "failed_permanent"}
        /\ letter'[sweep[w].sending].attempts = letter[sweep[w].sending].attempts
        /\ letter'[sweep[w].sending].status = "failed_retryable"
             => letter[sweep[w].sending].attempts < LocalAttempts
        /\ \A x \in Shelf \ {sweep[w].sending} : letter'[x] = letter[x]
    <3>1. sweep[w].sending # NoShelf /\ sweep[w].sending \in Shelf /\ sweep[w].now \in Nat
      BY <1>14 DEF LetterFailed, LTypes, SweepT
    <3> DEFINE was == letter[sweep[w].sending]
    <3> DEFINE retry == [was EXCEPT !.status = "failed_retryable",
                                    !.retryAt = sweep[w].now + LocalRetry]
    <3> DEFINE last == [was EXCEPT !.status = "failed_permanent", !.retryAt = 0]
    <3>2. was \in LetterT
      BY <3>1 DEF LTypes
    <3>3. PICK retryable \in BOOLEAN :
            letter' = [letter EXCEPT ![sweep[w].sending] =
                         IF MayRetry(was, retryable) THEN retry ELSE last]
      BY <1>14, <3>1 DEF LetterFailed, LTypes
    <3>4. MayRetry(was, retryable) => was.attempts < LocalAttempts
      BY DEF MayRetry
    <3> HIDE DEF was
    <3>5. /\ retry \in LetterT /\ retry.attempts = was.attempts
          /\ retry.status = "failed_retryable"
          /\ last \in LetterT /\ last.attempts = was.attempts
          /\ last.status = "failed_permanent"
      <4>1. retry \in LetterT /\ retry.attempts = was.attempts
            /\ retry.status = "failed_retryable"
        <5> DEFINE t == sweep[w].now + LocalRetry
        <5>1. t \in Nat
          BY <3>1
        <5> HIDE DEF t
        <5> QED BY <3>2, <5>1 DEF LetterT, Statuses, t
      <4>2. last \in LetterT /\ last.attempts = was.attempts
            /\ last.status = "failed_permanent"
        BY <3>2 DEF LetterT, Statuses
      <4> QED BY <4>1, <4>2
    <3> HIDE DEF retry, last
    <3>6. PICK d \in {retry, last} :
            /\ letter' = [letter EXCEPT ![sweep[w].sending] = d]
            /\ d = retry => was.attempts < LocalAttempts
      <4>1. CASE MayRetry(was, retryable)
        BY <3>3, <3>4, <4>1
      <4>2. CASE ~ MayRetry(was, retryable)
        <5>1. last # retry
          BY <3>5
        <5> QED BY <3>3, <4>2, <5>1
      <4> QED BY <4>1, <4>2
    <3>7. /\ d \in LetterT /\ d.attempts = was.attempts /\ d # NoLetter
          /\ d.status \in {"failed_retryable", "failed_permanent"}
          /\ d.status = "failed_retryable" => was.attempts < LocalAttempts
      <4>1. CASE d = retry
        BY <3>5, <3>6, <4>1, NoLetterIs
      <4>2. CASE d = last
        BY <3>5, <4>2, NoLetterIs
      <4> QED BY <4>1, <4>2
    <3>8. was # NoLetter /\ was.status = "sending"
      BY <3>1, NoLetterIs DEF was, SendsFit
    <3>9. sweep' = Answered(w)
      BY <1>14 DEF LetterFailed
    <3>10. /\ letter' \in [Shelf -> LetterT] /\ letter'[sweep[w].sending] = d
           /\ \A x \in Shelf \ {sweep[w].sending} : letter'[x] = letter[x]
      BY <3>1, <3>6, <3>7 DEF LTypes
    <3> QED BY <3>1, <3>7, <3>8, <3>9, <3>10, AnsweredIs DEF was
  <2>b. UNCHANGED <<stock, restock, localUp, flying, lastPass, pass,
                  reached, everOut, refilled, cutShort, localDeaths,
                  localClock>>
    BY <1>14 DEF LetterFailed, localRows, localMemory, localHistory
  <2>1. LTypes'
    BY <2>a, <2>b DEF LTypes
  <2>2. FlagFits'
    BY <2>a, <2>b DEF LTypes, FlagFits
  <2>3. PassFits'
    BY <2>a, <2>b DEF LTypes, PassFits
  <2>4. EventsFit'
    BY <2>a, <2>b DEF LTypes, PassFits, EventsFit
  <2>5. DeathsFit'
    BY <2>a, <2>b DEF DeathsFit
  <2>6. LettersFit'
    BY <2>a, <2>b DEF LTypes, LettersFit
  <2>7. SendsFit'
    BY SMTT(30), <2>a, <2>b DEF LTypes, SweepT, SendsFit
  <2> QED BY <2>1, <2>2, <2>3, <2>4, <2>5, <2>6, <2>7 DEF LocalInv
<1>15. CASE LocalDie
  <2>a. /\ localDeaths' = localDeaths + 1
        /\ localUp' = FALSE /\ flying' = FALSE /\ lastPass' = 0
        /\ pass' = NoPass
        /\ sweep' = [w \in Sweeper |-> NoSweep]
        /\ cutShort' = IF pass.alert = NoShelf THEN cutShort ELSE cutShort \union {pass.alert}
    BY <1>15 DEF LocalDie, localRows, localMemory, localHistory
  <2>b. UNCHANGED <<stock, restock, letter, reached, everOut,
                  refilled, localClock>>
    BY <1>15 DEF LocalDie, localRows, localMemory, localHistory
  <2>1. LTypes'
    <3>1. pass.alert \in Shelf \union {NoShelf}
      BY DEF LTypes, PassT
    <3>2. cutShort' \subseteq Shelf
      BY <2>a, <3>1 DEF LTypes
    <3>3. sweep' \in [Sweeper -> SweepT]
      BY <2>a, NoSweepIs
    <3>4. localDeaths' \in Nat /\ lastPass' \in Nat
      BY <2>a DEF LTypes
    <3> QED BY <2>a, <2>b, <3>2, <3>3, <3>4, NoPassIs DEF LTypes
  <2>2. FlagFits'
    BY <2>a, <2>b, NoPassIs, NoSweepIs DEF LTypes, FlagFits
  <2>3. PassFits'
    BY <2>a, <2>b, NoPassIs, NoSweepIs DEF LTypes, PassFits
  <2>4. EventsFit'
    BY <2>a, <2>b, NoPassIs, NoSweepIs DEF LTypes, PassFits, EventsFit
  <2>5. DeathsFit'
    <3>1. localDeaths \in Nat /\ Cardinality(cutShort) \in Nat
      BY FS_CardinalityType DEF LTypes, DeathsFit
    <3>2. CASE pass.alert = NoShelf
      BY <2>a, <3>1, <3>2 DEF DeathsFit
    <3>3. CASE pass.alert # NoShelf
      <4>1. cutShort' = cutShort \union {pass.alert}
        BY <2>a, <3>3
      <4>2. /\ IsFiniteSet(cutShort')
            /\ Cardinality(cutShort') <= Cardinality(cutShort) + 1
        BY SMTT(30), <3>1, <4>1, FS_AddElement DEF DeathsFit
      <4>3. Cardinality(cutShort') \in Nat
        BY <4>2, FS_CardinalityType
      <4> QED BY <2>a, <3>1, <4>2, <4>3 DEF DeathsFit
    <3> QED BY <3>2, <3>3
  <2>6. LettersFit'
    BY <2>a, <2>b, NoPassIs, NoSweepIs DEF LTypes, LettersFit
  <2>7. SendsFit'
    BY <2>a, <2>b, NoPassIs, NoSweepIs DEF LTypes, SweepT, SendsFit
  <2> QED BY <2>1, <2>2, <2>3, <2>4, <2>5, <2>6, <2>7 DEF LocalInv
<1>16. CASE LocalClockTicks
  <2>a. /\ localClock' = localClock + 1
    BY <1>16 DEF LocalClockTicks, localRows, localMemory, localHistory
  <2>b. UNCHANGED <<stock, restock, letter, localUp, flying,
                  lastPass, pass, sweep, reached, everOut, refilled, cutShort,
                  localDeaths>>
    BY <1>16 DEF LocalClockTicks, localRows, localMemory, localHistory
  <2>1. LTypes'
    BY <2>a, <2>b DEF LTypes
  <2>2. FlagFits'
    BY <2>a, <2>b DEF LTypes, FlagFits
  <2>3. PassFits'
    BY <2>a, <2>b DEF LTypes, PassFits
  <2>4. EventsFit'
    BY <2>a, <2>b DEF LTypes, PassFits, EventsFit
  <2>5. DeathsFit'
    BY <2>a, <2>b DEF DeathsFit
  <2>6. LettersFit'
    BY <2>a, <2>b DEF LTypes, LettersFit
  <2>7. SendsFit'
    BY <2>a, <2>b DEF LTypes, SweepT, SendsFit
  <2> QED BY <2>1, <2>2, <2>3, <2>4, <2>5, <2>6, <2>7 DEF LocalInv
<1>17. CASE UNCHANGED localVars
  <2>b. UNCHANGED <<stock, restock, letter, localUp, flying,
                  lastPass, pass, sweep, reached, everOut, refilled, cutShort,
                  localDeaths, localClock>>
    BY <1>17 DEF localVars, localRows, localMemory, localHistory
  <2>1. LTypes'
    BY <2>b DEF LTypes
  <2>2. FlagFits'
    BY <2>b DEF LTypes, FlagFits
  <2>3. PassFits'
    BY <2>b DEF LTypes, PassFits
  <2>4. EventsFit'
    BY <2>b DEF LTypes, PassFits, EventsFit
  <2>5. DeathsFit'
    BY <2>b DEF DeathsFit
  <2>6. LettersFit'
    BY <2>b DEF LTypes, LettersFit
  <2>7. SendsFit'
    BY <2>b DEF LTypes, SweepT, SendsFit
  <2> QED BY <2>1, <2>2, <2>3, <2>4, <2>5, <2>6, <2>7 DEF LocalInv
<1> QED
  BY <1>1, <1>2, <1>3, <1>4, <1>5, <1>6, <1>7, <1>8, <1>9, <1>10, <1>11, <1>12,
     <1>13, <1>14, <1>15, <1>16, <1>17 DEF LocalNext, PassSteps

LEMMA LocalInvInit == LocalInit => LocalInv
<1> USE LocalStockAssumption
<1> SUFFICES ASSUME LocalInit PROVE LocalInv
  OBVIOUS
<1>1. LTypes
  BY NoPassIs, NoSweepIs, NoLetterIs DEF LocalInit, LTypes, StockState
<1>2. FlagFits /\ PassFits /\ EventsFit
  BY NoPassIs DEF LocalInit, FlagFits, PassFits, EventsFit
<1>3. DeathsFit
  BY FS_EmptySet DEF LocalInit, DeathsFit
<1>4. LettersFit /\ SendsFit
  BY NoLetterIs, NoSweepIs DEF LocalInit, LettersFit, SendsFit
<1> QED BY <1>1, <1>2, <1>3, <1>4 DEF LocalInv

\* The invariant holds of passes and sweeps that overlap, and of deaths between any
\* two commits.
THEOREM LocalInvariant == LocalSpec => []LocalInv
<1> QED BY LocalInvInit, LocalInvStep, PTL DEF LocalSpec

\* The state of the shops, their events and their deliveries have their types
\* (local_stock/monitor.py, local_stock/delivery.py).
THEOREM LocalTypesHold == LocalSpec => []LocalTypeOK
<1>1. LocalInv => LocalTypeOK
  BY DEF LocalInv, LTypes, PassT, SweepT, LetterT, EventsFit, LocalTypeOK
<1> QED BY <1>1, LocalInvariant, PTL

\* No failed request, no answer without a shop and no first look ever leads to an
\* alert: each shelf alerted on was seen empty.
THEOREM AbsenceComesFirst == LocalSpec => []AlertsFollowAbsence
<1>1. LocalInv => AlertsFollowAbsence
  BY DEF LocalInv, EventsFit, AlertsFollowAbsence
<1> QED BY <1>1, LocalInvariant, PTL

\* Only a death of the worker keeps the first refill of a shelf from its delivery,
\* and it keeps one at most.
THEOREM FirstRefillsAreQueued == LocalSpec => []FirstRefillQueued
<1>1. LocalInv => FirstRefillQueued
  BY DEF LocalInv, EventsFit, DeathsFit, FirstRefillQueued
<1> QED BY <1>1, LocalInvariant, PTL

-----------------------------------------------------------------------------
(* The deliveries implement Outbox. *)

LEMMA LocalInitRefines == LocalInit => LocalOutbox!Init
BY NoLetterIs DEF LocalInit, LocalOutbox!Init, Given

\* Nothing of what Outbox sees changes.
LEMMA Stutters ==
  ASSUME letter' = letter, reached' = reached
  PROVE  UNCHANGED LocalOutbox!outboxVars
BY DEF LocalOutbox!outboxVars, Given

LEMMA QueueRefines ==
  ASSUME LocalInv, ApplyDelivery
  PROVE  LocalOutbox!Next
<1> DEFINE h == pass.alert
<1>1. /\ h \in Shelf /\ letter[h] = NoLetter /\ letter' = [letter EXCEPT ![h] = Letter]
      /\ reached' = reached
  BY LocalStockAssumption DEF LocalInv, ApplyDelivery, PassFits, LTypes, PassT
<1>2. letter'[h] = Letter /\ \A x \in Shelf \ {h} : letter'[x] = letter[x]
  BY <1>1, QueuedIs DEF LocalInv
<1> HIDE DEF h
<1>3. LocalOutbox!Queue(h)
  BY <1>1, <1>2, LetterIs, NoLetterIs DEF LocalOutbox!Queue, Given
<1> QED BY <1>1, <1>3 DEF LocalOutbox!Next

LEMMA ClaimRefines ==
  ASSUME LocalInv, NEW w \in Sweeper, NEW h \in Shelf, ClaimLetter(w, h)
  PROVE  UNCHANGED LocalOutbox!outboxVars
<1>1. reached' = reached
  BY DEF ClaimLetter
<1>2. CASE letter' = letter
  BY <1>1, <1>2, Stutters
<1>3. CASE /\ letter[h].status \in {"pending", "failed_retryable"}
           /\ letter' = [letter EXCEPT ![h].status = "sending", ![h].attempts = @ + 1]
  <2>1. letter'[h].status = "sending" /\ \A x \in Shelf \ {h} : letter'[x] = letter[x]
    BY <1>3, ClaimedIs DEF LocalInv
  <2> QED BY <1>1, <1>3, <2>1 DEF LocalOutbox!outboxVars, Given
<1> QED BY <1>2, <1>3 DEF ClaimLetter, LetterDue

LEMMA PostRefines ==
  ASSUME LocalInv, NEW w \in Sweeper, LetterArrives(w)
  PROVE  LocalOutbox!Next
<1> DEFINE h == sweep[w].sending
<1>1. /\ h \in Shelf /\ letter[h].status = "sending" /\ reached[h] < letter[h].attempts
      /\ reached[h] \in Nat /\ letter[h].attempts \in 0..LocalAttempts
  BY DEF LetterArrives, LocalInv, SendsFit, LTypes, SweepT, LetterT
<1>2. reached[h] < LocalAttempts
  BY <1>1, LocalStockAssumption
<1>3. letter' = letter /\ reached' = [reached EXCEPT ![h] = @ + 1]
  BY DEF LetterArrives, localRows
<1> HIDE DEF h
<1>4. LocalOutbox!Post(h)
  BY <1>1, <1>2, <1>3 DEF LocalOutbox!Post, Given
<1> QED BY <1>1, <1>4 DEF LocalOutbox!Next

LEMMA SentRefines ==
  ASSUME LocalInv, NEW w \in Sweeper, LetterSent(w)
  PROVE  LocalOutbox!Next
<1> DEFINE h == sweep[w].sending
<1>1. h \in Shelf /\ letter[h].status = "sending" /\ reached[h] > 0
  BY DEF LetterSent, LocalInv, SendsFit, LTypes, SweepT
<1>2. letter' = [letter EXCEPT ![h].status = "sent"] /\ reached' = reached
  BY DEF LetterSent
<1> HIDE DEF h
<1>3. letter'[h].status = "sent" /\ \A x \in Shelf \ {h} : letter'[x] = letter[x]
  BY <1>1, <1>2, SettledIs DEF LocalInv
<1>4. LocalOutbox!Settle(h)
  BY <1>1, <1>2, <1>3 DEF LocalOutbox!Settle, Given
<1> QED BY <1>1, <1>4 DEF LocalOutbox!Next

LEMMA FailedRefines ==
  ASSUME LocalInv, NEW w \in Sweeper, LetterFailed(w)
  PROVE  LocalOutbox!Next \/ UNCHANGED LocalOutbox!outboxVars
<1> DEFINE h == sweep[w].sending
<1> DEFINE was == letter[h]
<1> DEFINE retry == [was EXCEPT !.status = "failed_retryable",
                                !.retryAt = sweep[w].now + LocalRetry]
<1> DEFINE last == [was EXCEPT !.status = "failed_permanent", !.retryAt = 0]
<1>1. h \in Shelf /\ was.status = "sending" /\ was \in LetterT
  BY DEF LetterFailed, LocalInv, SendsFit, LTypes, SweepT
<1>2. /\ letter' = [letter EXCEPT ![h] = retry] \/ letter' = [letter EXCEPT ![h] = last]
      /\ reached' = reached
  <2>1. PICK retryable \in BOOLEAN :
          letter' = [letter EXCEPT ![h] = IF MayRetry(was, retryable) THEN retry ELSE last]
    BY <1>1 DEF LetterFailed, LocalInv, LTypes
  <2>2. reached' = reached
    BY DEF LetterFailed
  <2> QED BY <2>1, <2>2
<1>3. retry.status = "failed_retryable" /\ last.status = "failed_permanent"
  BY <1>1 DEF LetterT
<1> HIDE DEF retry, last
<1>4. CASE letter' = [letter EXCEPT ![h] = retry]
  <2>1. letter'[h] = retry /\ \A x \in Shelf \ {h} : letter'[x] = letter[x]
    BY <1>1, <1>4 DEF LocalInv, LTypes
  <2> QED BY <1>1, <1>2, <1>3, <2>1 DEF LocalOutbox!outboxVars, Given
<1>5. CASE letter' = [letter EXCEPT ![h] = last]
  <2>1. letter'[h] = last /\ \A x \in Shelf \ {h} : letter'[x] = letter[x]
    BY <1>1, <1>5 DEF LocalInv, LTypes
  <2> HIDE DEF h
  <2>2. LocalOutbox!GiveUp(h)
    BY <1>1, <1>2, <1>3, <2>1 DEF LocalOutbox!GiveUp, Given
  <2> QED BY <1>1, <2>2 DEF LocalOutbox!Next
<1> QED BY <1>2, <1>4, <1>5

LEMMA LocalStepRefines ==
  LocalInv /\ [LocalNext]_localVars => [LocalOutbox!Next]_LocalOutbox!outboxVars
<1> SUFFICES ASSUME LocalInv, [LocalNext]_localVars
             PROVE  LocalOutbox!Next \/ UNCHANGED LocalOutbox!outboxVars
  OBVIOUS
<1>1. ASSUME \/ StartLocalWorker \/ TickWithoutPass \/ StartPass \/ FetchRaises
             \/ ApplyEvent \/ LocalDie \/ LocalClockTicks \/ UNCHANGED localVars
      PROVE  UNCHANGED LocalOutbox!outboxVars
  BY <1>1, Stutters DEF StartLocalWorker, TickWithoutPass, StartPass, FetchRaises,
     ApplyEvent, LocalDie, LocalClockTicks, localVars, localRows
<1>2. ASSUME NEW l \in Listing, FetchFails(l) \/ Fetch(l)
      PROVE  UNCHANGED LocalOutbox!outboxVars
  BY <1>2, Stutters DEF FetchFails, Fetch, localRows
<1>3. ASSUME NEW h \in Shelf, ApplyState(h) PROVE UNCHANGED LocalOutbox!outboxVars
  BY <1>3, Stutters DEF ApplyState
<1>4. ASSUME NEW w \in Sweeper, StartSweep(w) PROVE UNCHANGED LocalOutbox!outboxVars
  BY <1>4, Stutters DEF StartSweep, localRows
<1> QED
  BY <1>1, <1>2, <1>3, <1>4, QueueRefines, ClaimRefines, PostRefines, SentRefines,
     FailedRefines DEF LocalNext, PassSteps

\* The alerts about shops keep the promise of the other deliveries: created once,
\* posted only until settled and at most LocalAttempts times, sent only if Discord
\* has them, never unsettled.
THEOREM LocalDeliveriesImplementOutbox == LocalSpec => LocalImplementsOutbox
<1> QED
  BY LocalInitRefines, LocalStepRefines, LocalInvariant, PTL
     DEF LocalSpec, LocalImplementsOutbox, LocalOutbox!Spec
=============================================================================
