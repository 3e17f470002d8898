----------------------- MODULE MessagePipelineProofs -----------------------
(***************************************************************************)
(* Theorems about MessagePipeline for any chats, loops, configurations and *)
(* bounds: its types, the invariant behind its ledger, and that it         *)
(* implements MessageLedger.                                               *)
(***************************************************************************)
EXTENDS MessagePipeline, TLAPS

TypesInv == TypeOK /\ PlacesInv

\* The loops other than l are where they were.
OthersStay(l) ==
    \A k \in Loops \ {l} :
        pc'[k] = pc[k] /\ cur'[k] = cur[k] /\ pending'[k] = pending[k] /\ shown'[k] = shown[k]

-----------------------------------------------------------------------------
(* What the helpers do to the types *)

\* A loop that is through with a session waits for the next one, or idles.
LEMMA SessionOverTypes ==
    ASSUME PipelineAssumption, LoopTypes, NEW l \in Loops,
           todo' \in [Loops -> SUBSET Sessions], SessionOver(l)
    PROVE  /\ LoopTypes'
           /\ pc'[l] \in {"idle", "next"}
           /\ \A k \in Loops \ {l} : pc'[k] = pc[k] /\ cur'[k] = cur[k] /\ pending'[k] = pending[k]
<1>1. pc' \in [Loops -> Places] /\ pc'[l] \in {"idle", "next"} /\ \A k \in Loops \ {l} : pc'[k] = pc[k]
  BY DEF SessionOver, Goto, LoopTypes, Places
<1>2. config' \in [Loops -> Configurations \cup {NoConfiguration}]
  BY DEF SessionOver, LoopTypes
<1>3. cur' \in [Loops -> Sessions \cup {NoSession}] /\ \A k \in Loops \ {l} : cur'[k] = cur[k]
  BY DEF SessionOver, LoopTypes
<1>4. history' \in [Loops -> SUBSET Messages]
  BY DEF SessionOver, LoopTypes
<1>5. pending' \in [Loops -> Messages \cup {NoMessage}] /\ \A k \in Loops \ {l} : pending'[k] = pending[k]
  BY DEF SessionOver, LoopTypes
<1> QED
  BY <1>1, <1>2, <1>3, <1>4, <1>5 DEF LoopTypes

\* What a switch leaves alone, whether it succeeds, misses or is broken off.
LEMMA SwitchTypes ==
    ASSUME PlatformTypes, AdapterTypes, NEW l \in Loops, NEW s \in Sessions,
           Switches(l, s) \/ SwitchBreaks(l, s) \/ Misses(l, s)
    PROVE  /\ AdapterTypes'
           /\ \A k \in Loops \ {l} : shown'[k] = shown[k]
           /\ shown[l] \in Sessions => shown'[l] \in Sessions
<1>1. CASE UNCHANGED adapterVars
  BY <1>1 DEF adapterVars, AdapterTypes
<1>2. CASE Opens(l, s)
  BY <1>2 DEF Opens, AdapterTypes
<1>3. ASSUME NEW c \in Sessions \cup {NoSession}, Clicked(l, c),
             UNCHANGED current \/ current' = [current EXCEPT ![l] = s]
      PROVE  /\ AdapterTypes'
             /\ \A k \in Loops \ {l} : shown'[k] = shown[k]
             /\ shown[l] \in Sessions => shown'[l] \in Sessions
  <2>1. shown' = [shown EXCEPT ![l] = c] /\ (shown[l] \in Sessions => c \in Sessions)
    BY <1>3 DEF Clicked, PlatformTypes
  <2> QED
    BY <1>3, <2>1 DEF AdapterTypes
<1> QED
  BY <1>1, <1>2, <1>3 DEF Switches, SwitchBreaks, Misses

LEMMA EnsureTypes ==
    ASSUME PlatformTypes, AdapterTypes, NEW l \in Loops, cur[l] \in Sessions,
           GetsOn(l) \/ GetsOnAndFails(l) \/ EnsureBreaks(l)
    PROVE  /\ AdapterTypes'
           /\ \A k \in Loops \ {l} : shown'[k] = shown[k]
           /\ shown[l] \in Sessions => shown'[l] \in Sessions
<1>1. CASE UNCHANGED adapterVars
  BY <1>1 DEF adapterVars, AdapterTypes
<1>2. CASE Switches(l, cur[l]) \/ SwitchBreaks(l, cur[l]) \/ Misses(l, cur[l])
  BY <1>2, SwitchTypes
<1> QED
  BY <1>1, <1>2 DEF GetsOn, GetsOnAndFails, Ensures, EnsureMisses, EnsureBreaks

\* A text of the seller, or a message of the buyer where there is room for it,
\* comes after all others of its chat.
LEMMA AppendTypes ==
    ASSUME PipelineAssumption, PlatformTypes, NEW s \in Sessions, NEW t \in Texts,
           page' = [page EXCEPT ![s] = Append(@, t)],
           t.kind \in SellerKinds \/ Len(page[s]) < MaxLength
    PROVE  /\ page' \in [Sessions -> Seq(Texts)]
           /\ \A u \in Sessions : \A i \in DOMAIN page'[u] :
                page'[u][i].kind \in BuyerKinds => i \in 1..MaxLength
           /\ \A u \in Sessions \ {s} : page'[u] = page[u]
           /\ DOMAIN page'[s] = DOMAIN page[s] \cup {Len(page[s]) + 1}
           /\ Len(page[s]) + 1 \notin DOMAIN page[s]
           /\ \A i \in DOMAIN page[s] : page'[s][i] = page[s][i]
           /\ page'[s][Len(page[s]) + 1] = t
<1> DEFINE n == Len(page[s]) + 1
<1>1. page[s] \in Seq(Texts) /\ page'[s] = Append(page[s], t)
  BY DEF PlatformTypes
<1>2. page' \in [Sessions -> Seq(Texts)] /\ \A u \in Sessions \ {s} : page'[u] = page[u]
  BY <1>1 DEF PlatformTypes
<1>3. /\ DOMAIN page[s] = 1..Len(page[s]) /\ Len(page[s]) \in Nat
      /\ DOMAIN page'[s] = 1..n
      /\ \A i \in 1..Len(page[s]) : page'[s][i] = page[s][i]
      /\ page'[s][n] = t
  BY <1>1
<1>4. DOMAIN page'[s] = DOMAIN page[s] \cup {n} /\ n \notin DOMAIN page[s]
  BY <1>3
<1>5. t.kind \in BuyerKinds => n \in 1..MaxLength
  BY <1>3 DEF PipelineAssumption, SellerKinds, BuyerKinds
<1>6. \A u \in Sessions : \A i \in DOMAIN page'[u] : page'[u][i].kind \in BuyerKinds => i \in 1..MaxLength
  BY <1>2, <1>3, <1>4, <1>5 DEF PlatformTypes
<1> QED
  BY <1>2, <1>3, <1>4, <1>6

LEMMA PendingTypes ==
    ASSUME PlacesInv, NEW l \in Loops, pc[l] \in {"saving", "deciding", "sending", "noticing", "transferring"}
    PROVE  Pending(l) \in Records /\ cur[l] \in Sessions /\ shown[l] \in Sessions
BY DEF PlacesInv, Pending, Records

LEMMA PlatformStays ==
    ASSUME PlatformTypes, UNCHANGED <<page, listVars, transferred>>
    PROVE  PlatformTypes'
BY DEF PlatformTypes, listVars

LEMMA BookStep ==
    ASSUME PipelineAssumption, BookTypes, Fault \/ NoFault
    PROVE  BookTypes'
BY DEF PipelineAssumption, BookTypes, Fault, NoFault, bookVars

LEMMA MissStep ==
    ASSUME PipelineAssumption, PlatformTypes, BookTypes, NEW l, NEW s, Misses(l, s)
    PROVE  BookTypes'
BY DEF PipelineAssumption, PlatformTypes, BookTypes, Misses

LEMMA GetsOnStep ==
    ASSUME PipelineAssumption, PlatformTypes, BookTypes, NEW l, GetsOn(l) \/ GetsOnAndFails(l)
    PROVE  BookTypes'
BY BookStep, MissStep DEF GetsOn, GetsOnAndFails, EnsureMisses

\* A text of the pipeline goes into the chat that the page shows.
LEMMA TextTypes ==
    ASSUME PipelineAssumption, TypeOK, PlacesInv, NEW l \in Loops, NEW kind \in {"reply", "notice"},
           pc[l] \in {"sending", "noticing"}, GetsOn(l) \/ GetsOnAndFails(l), Types(l, kind),
           UNCHANGED <<listVars, transferred>>
    PROVE  PlatformTypes' /\ shown'[l] \in Sessions
<1>1. Pending(l) \in Records /\ cur[l] \in Sessions /\ shown[l] \in Sessions
  BY PendingTypes
<1>2. shown'[l] \in Sessions
  BY <1>1, EnsureTypes DEF TypeOK
<1> DEFINE t == [kind |-> kind, about |-> Pending(l)]
<1>3. t \in Texts /\ t.kind \in SellerKinds
  BY <1>1 DEF Texts, SellerKinds
<1>4. page' = [page EXCEPT ![shown'[l]] = Append(@, t)]
  BY DEF Types
<1> HIDE DEF t
<1>5. /\ page' \in [Sessions -> Seq(Texts)]
      /\ \A u \in Sessions : \A i \in DOMAIN page'[u] : page'[u][i].kind \in BuyerKinds => i \in 1..MaxLength
  BY <1>2, <1>3, <1>4, AppendTypes DEF TypeOK
<1> QED
  BY <1>2, <1>5 DEF TypeOK, PlatformTypes, listVars

\* The places of the other loops are right if they stay.
LEMMA PlacesStep ==
    ASSUME PlacesInv, NEW l \in Loops, OthersStay(l),
           pc'[l] \notin {"idle", "next"} => cur'[l] \in Sessions,
           pc'[l] \notin {"idle", "next", "fetching"} => shown'[l] \in Sessions,
           pc'[l] \notin {"idle", "next", "fetching", "storing"} => pending'[l] \in Messages
    PROVE  PlacesInv'
<1> SUFFICES ASSUME NEW k \in Loops
             PROVE  /\ pc'[k] \notin {"idle", "next"} => cur'[k] \in Sessions
                    /\ pc'[k] \notin {"idle", "next", "fetching"} => shown'[k] \in Sessions
                    /\ pc'[k] \notin {"idle", "next", "fetching", "storing"} => pending'[k] \in Messages
  BY DEF PlacesInv
<1>1. CASE k = l
  BY <1>1
<1>2. CASE k # l
  BY <1>2 DEF PlacesInv, OthersStay
<1> QED
  BY <1>1, <1>2

LEMMA SessionOverStep ==
    ASSUME PipelineAssumption, TypeOK, PlacesInv, NEW l \in Loops,
           PlatformTypes', DbTypes', AdapterTypes', BookTypes', todo' \in [Loops -> SUBSET Sessions],
           \A k \in Loops \ {l} : shown'[k] = shown[k],
           SessionOver(l)
    PROVE  TypesInv' /\ OthersStay(l) /\ pc'[l] \in {"idle", "next"}
<1>1. /\ LoopTypes' /\ pc'[l] \in {"idle", "next"}
      /\ \A k \in Loops \ {l} : pc'[k] = pc[k] /\ cur'[k] = cur[k] /\ pending'[k] = pending[k]
  BY SessionOverTypes DEF TypeOK
<1>2. OthersStay(l)
  BY <1>1 DEF OthersStay
<1>3. PlacesInv'
  BY <1>1, <1>2, PlacesStep
<1> QED
  BY <1>1, <1>2, <1>3 DEF TypesInv, TypeOK

-----------------------------------------------------------------------------
(* The actions and the types *)

LEMMA ListSessionsTypes ==
    ASSUME PipelineAssumption, TypesInv, NEW l \in Loops, ListSessions(l)
    PROVE  TypesInv' /\ OthersStay(l) /\ pc'[l] = "next"
<1> USE DEF TypesInv, TypeOK
<1>1. PICK found \in SUBSET Sessions : todo' = [todo EXCEPT ![l] = found]
  BY DEF ListSessions, PlatformTypes
<1>2. LoopTypes' /\ pc'[l] = "next" /\ \A k \in Loops \ {l} : pc'[k] = pc[k]
  BY <1>1 DEF ListSessions, Goto, LoopTypes, Places
<1>3. PlatformTypes' /\ DbTypes' /\ AdapterTypes' /\ BookTypes'
  BY BookStep, PlatformStays DEF ListSessions, platformVars, dbVars, adapterVars, DbTypes, AdapterTypes
<1>4. OthersStay(l)
  BY <1>2 DEF ListSessions, adapterVars, OthersStay
<1>5. PlacesInv'
  BY <1>2, <1>4, PlacesStep
<1> QED
  BY <1>2, <1>3, <1>4, <1>5

LEMMA ReloadTypes ==
    ASSUME PipelineAssumption, TypesInv, NEW l \in Loops, Reload(l)
    PROVE  TypesInv' /\ OthersStay(l) /\ pc'[l] = "idle"
<1> USE DEF TypesInv, TypeOK
<1>1. AdapterTypes' /\ \A k \in Loops \ {l} : shown'[k] = shown[k]
  BY DEF Reload, AdapterTypes
<1>2. PlatformTypes' /\ DbTypes' /\ LoopTypes' /\ BookTypes'
  BY BookStep, PlatformStays DEF Reload, platformVars, dbVars, loopVars, DbTypes, LoopTypes
<1>3. OthersStay(l) /\ pc'[l] = "idle"
  BY <1>1 DEF Reload, At, loopVars, OthersStay
<1>4. PlacesInv'
  BY <1>3, PlacesStep
<1> QED
  BY <1>1, <1>2, <1>3, <1>4

LEMMA SwitchToTypes ==
    ASSUME PipelineAssumption, TypesInv, NEW l \in Loops, NEW s \in Sessions, SwitchTo(l, s)
    PROVE  TypesInv' /\ OthersStay(l) /\ pc'[l] = "fetching"
<1> USE DEF TypesInv, TypeOK
<1>1. LoopTypes' /\ pc'[l] = "fetching" /\ cur'[l] = s
  BY DEF SwitchTo, Goto, LoopTypes, Places
<1>2. \A k \in Loops \ {l} : pc'[k] = pc[k] /\ cur'[k] = cur[k] /\ pending'[k] = pending[k]
  BY DEF SwitchTo, Goto, LoopTypes
<1>3. AdapterTypes' /\ \A k \in Loops \ {l} : shown'[k] = shown[k]
  BY SwitchTypes DEF SwitchTo
<1>4. PlatformTypes' /\ DbTypes' /\ BookTypes'
  BY BookStep, MissStep, PlatformStays DEF SwitchTo, platformVars, dbVars, DbTypes
<1>5. OthersStay(l)
  BY <1>2, <1>3 DEF OthersStay
<1>6. PlacesInv'
  BY <1>1, <1>5, PlacesStep
<1> QED
  BY <1>1, <1>3, <1>4, <1>5, <1>6

LEMMA SwitchFailsTypes ==
    ASSUME PipelineAssumption, TypesInv, NEW l \in Loops, NEW s \in Sessions, SwitchFails(l, s)
    PROVE  TypesInv' /\ OthersStay(l) /\ pc'[l] \in {"idle", "next"}
<1> USE DEF TypesInv, TypeOK
<1>1. AdapterTypes' /\ \A k \in Loops \ {l} : shown'[k] = shown[k]
  BY SwitchTypes DEF SwitchFails
<1>2. PlatformTypes' /\ DbTypes' /\ BookTypes'
  BY BookStep, PlatformStays DEF SwitchFails, platformVars, dbVars, DbTypes
<1>3. todo' \in [Loops -> SUBSET Sessions] /\ SessionOver(l)
  BY DEF SwitchFails, LoopTypes
<1> QED
  BY <1>1, <1>2, <1>3, SessionOverStep

\* What is read from a chat are messages of that chat.
LEMMA SplitsTypes ==
    ASSUME TypeOK, NEW l \in Loops, NEW chat \in Sessions, NEW last, NEW answered \in BOOLEAN,
           SplitsAs(l, chat, last, answered), UNCHANGED todo
    PROVE  /\ LoopTypes' /\ UNCHANGED cur
           /\ pc'[l] \in {"storing", "saving"}
           /\ pc'[l] = "saving" => pending'[l] \in Messages
           /\ \A k \in Loops \ {l} : pc'[k] = pc[k] /\ pending'[k] = pending[k]
<1> DEFINE asked == {i \in DOMAIN page[chat] : page[chat][i].kind \in BuyerKinds}
           old == IF answered THEN asked ELSE asked \ {last}
<1>1. /\ last \in asked
      /\ history' = [history EXCEPT ![l] = {<<chat, i>> : i \in old}]
      /\ pending' = [pending EXCEPT ![l] = IF answered THEN NoMessage ELSE <<chat, last>>]
      /\ pc' = [pc EXCEPT ![l] = IF old # {} THEN "storing" ELSE "saving"]
      /\ UNCHANGED <<config, cur>>
  BY Zenon DEF SplitsAs, Goto
<1>2. asked \subseteq 1..MaxLength
  BY DEF TypeOK, PlatformTypes
<1>3. old \subseteq 1..MaxLength /\ last \in 1..MaxLength /\ (answered => old # {})
  BY <1>1, <1>2
<1> HIDE DEF asked, old
<1>4. \A i \in 1..MaxLength : <<chat, i>> \in Messages
  BY DEF Messages
<1>5. {<<chat, i>> : i \in old} \subseteq Messages /\ <<chat, last>> \in Messages
  BY <1>3, <1>4
<1>6. history' \in [Loops -> SUBSET Messages]
  BY <1>1, <1>5 DEF TypeOK, LoopTypes
<1>7. pending' \in [Loops -> Messages \cup {NoMessage}] /\ \A k \in Loops \ {l} : pending'[k] = pending[k]
  BY <1>1, <1>5 DEF TypeOK, LoopTypes
<1>8. /\ pc' \in [Loops -> Places] /\ \A k \in Loops \ {l} : pc'[k] = pc[k]
      /\ pc'[l] = IF old # {} THEN "storing" ELSE "saving"
  BY <1>1 DEF TypeOK, LoopTypes, Places
<1>9. pending'[l] = IF answered THEN NoMessage ELSE <<chat, last>>
  BY <1>1 DEF TypeOK, LoopTypes
<1> QED
  BY <1>1, <1>3, <1>5, <1>6, <1>7, <1>8, <1>9 DEF TypeOK, LoopTypes

LEMMA FetchTypes ==
    ASSUME PipelineAssumption, TypesInv, NEW l \in Loops, Fetch(l) \/ FetchUnordered(l)
    PROVE  TypesInv' /\ OthersStay(l) /\ pc'[l] \in {"idle", "next", "storing", "saving"}
<1> USE DEF TypesInv, TypeOK
<1>1. pc[l] = "fetching" /\ cur[l] \in Sessions
  BY DEF Fetch, FetchUnordered, At, PlacesInv
<1>2. AdapterTypes' /\ \A k \in Loops \ {l} : shown'[k] = shown[k]
  BY <1>1, EnsureTypes DEF Fetch, FetchUnordered
<1>3. PlatformTypes' /\ DbTypes' /\ BookTypes' /\ UNCHANGED todo
  BY GetsOnStep, PlatformStays DEF Fetch, FetchUnordered, platformVars, dbVars, DbTypes
<1>4. CASE SessionOver(l)
  <2>1. todo' \in [Loops -> SUBSET Sessions]
    BY <1>3 DEF LoopTypes
  <2> QED
    BY <1>2, <1>3, <1>4, <2>1, SessionOverStep
<1>5. ASSUME shown'[l] # NoSession, NEW last, NEW answered \in BOOLEAN,
             SplitsAs(l, shown'[l], last, answered)
      PROVE  TypesInv' /\ OthersStay(l) /\ pc'[l] \in {"storing", "saving"}
  <2>1. shown'[l] \in Sessions
    BY <1>2, <1>5 DEF AdapterTypes
  <2>3. /\ LoopTypes' /\ UNCHANGED cur
        /\ pc'[l] \in {"storing", "saving"}
        /\ pc'[l] = "saving" => pending'[l] \in Messages
        /\ \A k \in Loops \ {l} : pc'[k] = pc[k] /\ pending'[k] = pending[k]
    BY <1>3, <1>5, <2>1, SplitsTypes
  <2>4. OthersStay(l)
    BY <1>2, <2>3 DEF OthersStay
  <2>5. PlacesInv'
    BY <1>1, <2>1, <2>3, <2>4, PlacesStep
  <2> QED
    BY <1>2, <1>3, <2>3, <2>4, <2>5
<1>6. \/ SessionOver(l)
      \/ /\ shown'[l] # NoSession
         /\ \E last : \E answered \in BOOLEAN : SplitsAs(l, shown'[l], last, answered)
  <2>1. \A chat, i : SellerAfter(chat, i) \in BOOLEAN
    BY DEF SellerAfter
  <2>2. CASE Fetch(l)
    BY <2>1, <2>2, Zenon DEF Fetch, Splits
  <2>3. CASE FetchUnordered(l)
    BY <2>1, <2>3, Zenon DEF FetchUnordered
  <2> QED
    BY <2>2, <2>3
<1> QED
  BY <1>4, <1>5, <1>6

LEMMA FetchFailsTypes ==
    ASSUME PipelineAssumption, TypesInv, NEW l \in Loops, FetchFails(l)
    PROVE  TypesInv' /\ OthersStay(l) /\ pc'[l] \in {"idle", "next"}
<1> USE DEF TypesInv, TypeOK
<1>1. AdapterTypes' /\ \A k \in Loops \ {l} : shown'[k] = shown[k]
  BY EnsureTypes DEF FetchFails, At, PlacesInv
<1>2. PlatformTypes' /\ DbTypes' /\ BookTypes'
  BY BookStep, PlatformStays DEF FetchFails, platformVars, dbVars, DbTypes
<1>3. todo' \in [Loops -> SUBSET Sessions] /\ SessionOver(l)
  BY DEF FetchFails, LoopTypes
<1> QED
  BY <1>1, <1>2, <1>3, SessionOverStep

LEMMA SaveTypes ==
    ASSUME DbTypes, NEW r \in Records, Save(r)
    PROVE  DbTypes'
<1>1. r.session \in Sessions
  BY DEF Records
<1> QED
  BY <1>1 DEF Save, DbTypes

LEMMA StoreNextTypes ==
    ASSUME PipelineAssumption, TypesInv, NEW l \in Loops, StoreNext(l)
    PROVE  /\ TypesInv' /\ OthersStay(l) /\ pc'[l] \in {"idle", "next", "storing", "saving"}
           /\ \E r \in Records : Save(r)
<1> USE DEF TypesInv, TypeOK
<1>1. pc[l] = "storing" /\ cur[l] \in Sessions /\ shown[l] \in Sessions
  BY DEF StoreNext, At, PlacesInv
<1>2. PlatformTypes' /\ AdapterTypes' /\ BookTypes' /\ UNCHANGED <<todo, shown>>
  BY BookStep, PlatformStays DEF StoreNext, platformVars, adapterVars, AdapterTypes
<1>3. PICK m \in history[l] :
         /\ Save([session |-> cur[l], message |-> m])
         /\ \/ history' = [history EXCEPT ![l] = @ \ {m}] /\ UNCHANGED <<pc, config, cur, pending>>
            \/ /\ pending[l] # NoMessage
               /\ history' = [history EXCEPT ![l] = {}]
               /\ Goto(l, "saving")
               /\ UNCHANGED <<config, cur, pending>>
            \/ SessionOver(l)
  BY Zenon DEF StoreNext
<1>4. m \in Messages /\ [session |-> cur[l], message |-> m] \in Records
  BY <1>1, <1>3 DEF LoopTypes, Records
<1>5. DbTypes'
  BY <1>3, <1>4, SaveTypes
<1>6. CASE history' = [history EXCEPT ![l] = @ \ {m}] /\ UNCHANGED <<pc, config, cur, pending>>
  <2>1. LoopTypes'
    BY <1>2, <1>6 DEF LoopTypes
  <2>2. OthersStay(l) /\ PlacesInv' /\ pc'[l] = "storing"
    BY <1>1, <1>2, <1>6 DEF OthersStay, PlacesInv
  <2> QED
    BY <1>2, <1>3, <1>4, <1>5, <2>1, <2>2
<1>7. CASE pending[l] # NoMessage /\ history' = [history EXCEPT ![l] = {}] /\ Goto(l, "saving")
           /\ UNCHANGED <<config, cur, pending>>
  <2>1. LoopTypes' /\ pc'[l] = "saving" /\ \A k \in Loops \ {l} : pc'[k] = pc[k]
    BY <1>2, <1>7 DEF Goto, LoopTypes, Places
  <2>2. OthersStay(l)
    BY <1>2, <1>7, <2>1 DEF OthersStay
  <2>3. pending'[l] \in Messages
    BY <1>7 DEF LoopTypes
  <2>4. PlacesInv'
    BY <1>1, <1>2, <1>7, <2>1, <2>2, <2>3, PlacesStep
  <2> QED
    BY <1>2, <1>3, <1>4, <1>5, <2>1, <2>2, <2>4
<1>8. CASE SessionOver(l)
  <2>1. todo' \in [Loops -> SUBSET Sessions]
    BY <1>2 DEF LoopTypes
  <2> QED
    BY <1>2, <1>3, <1>4, <1>5, <1>8, <2>1, SessionOverStep
<1> QED
  BY <1>3, <1>6, <1>7, <1>8

\* The message is known, and nothing happens; or it is recorded, and waits for
\* its decision unless the AI is off.
LEMMA SavePendingTypes ==
    ASSUME PipelineAssumption, TypesInv, NEW l \in Loops, SavePending(l)
    PROVE  /\ TypesInv' /\ OthersStay(l)
           /\ \/ UNCHANGED <<saved, replies, escalations>> /\ pc'[l] \in {"idle", "next"}
              \/ /\ Pending(l) \in Records \ saved /\ Save(Pending(l))
                 /\ \/ pc'[l] \in {"idle", "next"}
                    \/ pc'[l] = "deciding" /\ UNCHANGED <<cur, pending>>
<1> USE DEF TypesInv, TypeOK
<1>1. pc[l] = "saving" /\ Pending(l) \in Records
  BY PendingTypes DEF SavePending, At
<1>2. PlatformTypes' /\ AdapterTypes' /\ BookTypes' /\ UNCHANGED <<todo, shown>>
  BY BookStep, PlatformStays DEF SavePending, platformVars, adapterVars, AdapterTypes
<1>3. todo' \in [Loops -> SUBSET Sessions]
  BY <1>2 DEF LoopTypes
<1>4. CASE UNCHANGED dbVars /\ SessionOver(l)
  <2>1. DbTypes' /\ UNCHANGED <<saved, replies, escalations>>
    BY <1>4 DEF dbVars, DbTypes
  <2> QED
    BY <1>2, <1>3, <1>4, <2>1, SessionOverStep
<1>5. CASE Pending(l) \notin saved /\ Save(Pending(l)) /\ SessionOver(l)
  BY <1>1, <1>2, <1>3, <1>5, SaveTypes, SessionOverStep
<1>6. CASE Pending(l) \notin saved /\ Save(Pending(l)) /\ Goto(l, "deciding")
           /\ UNCHANGED <<config, cur, history, pending>>
  <2>1. LoopTypes' /\ pc'[l] = "deciding" /\ \A k \in Loops \ {l} : pc'[k] = pc[k]
    BY <1>2, <1>6 DEF Goto, LoopTypes, Places
  <2>2. OthersStay(l)
    BY <1>2, <1>6, <2>1 DEF OthersStay
  <2>3. PlacesInv'
    BY <1>1, <1>2, <1>6, <2>1, <2>2, PlacesStep DEF PlacesInv
  <2> QED
    BY <1>1, <1>2, <1>6, <2>1, <2>2, <2>3, SaveTypes
<1> QED
  BY <1>4, <1>5, <1>6 DEF SavePending

\* A decision moves its loop on and leaves everything in its hands.
LEMMA GotoTypes ==
    ASSUME TypesInv, NEW l \in Loops, NEW place \in Places \ {"idle", "next", "fetching", "storing", "saving"},
           pc[l] \in {"deciding", "noticing"}, Goto(l, place),
           UNCHANGED <<config, todo, cur, history, pending>>,
           \A k \in Loops \ {l} : shown'[k] = shown[k],
           shown[l] \in Sessions => shown'[l] \in Sessions
    PROVE  LoopTypes' /\ OthersStay(l) /\ PlacesInv' /\ pc'[l] = place
<1>1. LoopTypes' /\ pc'[l] = place /\ \A k \in Loops \ {l} : pc'[k] = pc[k]
  BY DEF Goto, TypesInv, TypeOK, LoopTypes
<1>2. OthersStay(l)
  BY <1>1 DEF OthersStay
<1>3. cur[l] \in Sessions /\ shown'[l] \in Sessions /\ pending[l] \in Messages
  BY DEF TypesInv, PlacesInv
<1>4. PlacesInv'
  BY <1>2, <1>3, PlacesStep DEF TypesInv
<1> QED
  BY <1>1, <1>2, <1>4

LEMMA EscalateTypes ==
    ASSUME PipelineAssumption, TypesInv, NEW l \in Loops, Escalate(l)
    PROVE  TypesInv' /\ OthersStay(l) /\ pc'[l] \in {"noticing", "transferring"}
<1> USE DEF TypesInv, TypeOK
<1>1. pc[l] = "deciding" /\ Pending(l) \in Records /\ cur[l] \in Sessions
  BY PendingTypes DEF Escalate, At
<1>2. PlatformTypes' /\ AdapterTypes' /\ BookTypes' /\ UNCHANGED shown
  BY BookStep, PlatformStays DEF Escalate, platformVars, adapterVars, AdapterTypes
<1>3. DbTypes'
  <2> DEFINE row == [record |-> Pending(l), by |-> l, success |-> FALSE]
  <2>1. row \in [record : Records, by : Loops, success : BOOLEAN]
    BY <1>1
  <2>2. /\ status' = [status EXCEPT ![cur[l]] = "escalated"] /\ escalations' = escalations \cup {row}
        /\ UNCHANGED <<saved, replies>>
    BY DEF Escalate
  <2> QED
    BY <2>1, <2>2 DEF DbTypes
<1>4. PICK place \in {"noticing", "transferring"} : Goto(l, place)
  BY DEF Escalate
<1>5. LoopTypes' /\ OthersStay(l) /\ PlacesInv' /\ pc'[l] = place
  BY <1>1, <1>2, <1>4, GotoTypes DEF Escalate, Places
<1> QED
  BY <1>2, <1>3, <1>5

LEMMA ReplyTypes ==
    ASSUME PipelineAssumption, TypesInv, NEW l \in Loops, Reply(l)
    PROVE  TypesInv' /\ OthersStay(l) /\ pc'[l] = "sending"
<1> USE DEF TypesInv, TypeOK
<1>1. pc[l] = "deciding" /\ Pending(l) \in Records /\ cur[l] \in Sessions
  BY PendingTypes DEF Reply, At
<1>2. PlatformTypes' /\ AdapterTypes' /\ BookTypes' /\ UNCHANGED shown
  BY BookStep, PlatformStays DEF Reply, platformVars, adapterVars, AdapterTypes
<1>3. DbTypes'
  BY <1>1 DEF Reply, DbTypes
<1>4. LoopTypes' /\ OthersStay(l) /\ PlacesInv' /\ pc'[l] = "sending"
  BY <1>1, <1>2, GotoTypes DEF Reply, Places
<1> QED
  BY <1>2, <1>3, <1>4

LEMMA ProcessingFailsTypes ==
    ASSUME PipelineAssumption, TypesInv, NEW l \in Loops, ProcessingFails(l)
    PROVE  TypesInv' /\ OthersStay(l) /\ pc'[l] \in {"idle", "next"}
<1> USE DEF TypesInv, TypeOK
<1>1. PlatformTypes' /\ DbTypes' /\ AdapterTypes' /\ BookTypes' /\ UNCHANGED shown
  BY BookStep, PlatformStays DEF ProcessingFails, platformVars, dbVars, adapterVars, DbTypes, AdapterTypes
<1>2. todo' \in [Loops -> SUBSET Sessions] /\ SessionOver(l)
  BY DEF ProcessingFails, LoopTypes
<1> QED
  BY <1>1, <1>2, SessionOverStep

LEMMA SendTypes ==
    ASSUME PipelineAssumption, TypesInv, NEW l \in Loops, Send(l) \/ SendFails(l)
    PROVE  /\ TypesInv' /\ OthersStay(l) /\ pc'[l] \in {"idle", "next"} /\ pc[l] = "sending"
           /\ UNCHANGED <<saved, replies, escalations>>
           /\ UNCHANGED page \/ (Types(l, "reply") /\ shown'[l] \in Sessions)
<1> USE DEF TypesInv, TypeOK
<1>1. pc[l] = "sending" /\ cur[l] \in Sessions
  BY PendingTypes DEF Send, SendFails, At
<1>2. DbTypes' /\ BookTypes' /\ UNCHANGED <<saved, replies, escalations>>
  BY BookStep, GetsOnStep DEF Send, SendFails, dbVars, DbTypes
<1>3. todo' \in [Loops -> SUBSET Sessions] /\ SessionOver(l)
  BY DEF Send, SendFails, LoopTypes
<1>4. AdapterTypes' /\ \A k \in Loops \ {l} : shown'[k] = shown[k]
  BY <1>1, EnsureTypes DEF Send, SendFails
<1>5. CASE UNCHANGED page
  <2>1. PlatformTypes'
    BY <1>5, PlatformStays DEF Send, SendFails
  <2> QED
    BY <1>1, <1>2, <1>3, <1>4, <1>5, <2>1, SessionOverStep
<1>6. CASE (GetsOn(l) \/ GetsOnAndFails(l)) /\ Types(l, "reply")
  <2>1. PlatformTypes' /\ shown'[l] \in Sessions
    BY <1>1, <1>6, TextTypes DEF Send, SendFails
  <2> QED
    BY <1>1, <1>2, <1>3, <1>4, <1>6, <2>1, SessionOverStep
<1> QED
  BY <1>5, <1>6 DEF Send, SendFails

LEMMA NoticeTypes ==
    ASSUME PipelineAssumption, TypesInv, NEW l \in Loops, SendNotice(l) \/ NoticeFails(l)
    PROVE  /\ TypesInv' /\ OthersStay(l) /\ pc'[l] \in {"idle", "next", "transferring"} /\ pc[l] = "noticing"
           /\ UNCHANGED <<saved, replies, escalations>>
           /\ UNCHANGED page \/ (Types(l, "notice") /\ shown'[l] \in Sessions)
<1> USE DEF TypesInv, TypeOK
<1>1. pc[l] = "noticing" /\ cur[l] \in Sessions
  BY PendingTypes DEF SendNotice, NoticeFails, At
<1>2. DbTypes' /\ BookTypes' /\ UNCHANGED <<saved, replies, escalations>>
  BY BookStep, GetsOnStep DEF SendNotice, NoticeFails, dbVars, DbTypes
<1>3. AdapterTypes' /\ (\A k \in Loops \ {l} : shown'[k] = shown[k])
      /\ (shown[l] \in Sessions => shown'[l] \in Sessions)
  BY <1>1, EnsureTypes DEF SendNotice, NoticeFails
<1>4. PlatformTypes' /\ (UNCHANGED page \/ (Types(l, "notice") /\ shown'[l] \in Sessions))
  <2>1. CASE UNCHANGED page
    BY <2>1, PlatformStays DEF SendNotice, NoticeFails
  <2>2. CASE (GetsOn(l) \/ GetsOnAndFails(l)) /\ Types(l, "notice")
    BY <1>1, <2>2, TextTypes DEF SendNotice, NoticeFails
  <2> QED
    BY <2>1, <2>2 DEF SendNotice, NoticeFails
<1>5. CASE SendNotice(l)
  <2>1. LoopTypes' /\ OthersStay(l) /\ PlacesInv' /\ pc'[l] = "transferring"
    BY <1>1, <1>3, <1>5, GotoTypes DEF SendNotice, Places
  <2> QED
    BY <1>1, <1>2, <1>3, <1>4, <2>1
<1>6. CASE NoticeFails(l)
  <2>1. todo' \in [Loops -> SUBSET Sessions] /\ SessionOver(l)
    BY <1>6 DEF NoticeFails, LoopTypes
  <2> QED
    BY <1>1, <1>2, <1>3, <1>4, <2>1, SessionOverStep
<1> QED
  BY <1>5, <1>6

\* An update changes the outcome of rows, and not what they are about.
LEMMA LogTypes ==
    ASSUME DbTypes, NEW l \in Loops, NEW success \in BOOLEAN, UpdateLog(l, success)
    PROVE  DbTypes' /\ UNCHANGED <<saved, replies, Escalated>>
<1>1. PICK e \in escalations : escalations' = (escalations \ {e}) \cup {[e EXCEPT !.success = success]}
  BY DEF UpdateLog
<1> DEFINE row == [e EXCEPT !.success = success]
<1>2. e \in [record : Records, by : Loops, success : BOOLEAN]
  BY DEF DbTypes
<1>3. row \in [record : Records, by : Loops, success : BOOLEAN] /\ row.record = e.record
  BY <1>2
<1>4. UNCHANGED <<saved, replies, status>>
  BY DEF UpdateLog
<1>5. DbTypes'
  BY <1>1, <1>3, <1>4 DEF DbTypes
<1> HIDE DEF row
<1>6. escalations' = (escalations \ {e}) \cup {row}
  BY <1>1 DEF row
<1>7. {x.record : x \in escalations'} = {x.record : x \in escalations}
  BY <1>1, <1>3, <1>6
<1> QED
  BY <1>4, <1>5, <1>7 DEF Escalated

LEMMA TransferTypes ==
    ASSUME PipelineAssumption, TypesInv, NEW l \in Loops, Transfer(l) \/ TransferFails(l)
    PROVE  /\ TypesInv' /\ OthersStay(l) /\ pc'[l] \in {"idle", "next"}
           /\ UNCHANGED <<page, saved, replies, Escalated>>
<1> USE DEF TypesInv, TypeOK
<1>1. pc[l] = "transferring" /\ cur[l] \in Sessions /\ Pending(l) \in Records /\ shown[l] \in Sessions
  BY PendingTypes DEF Transfer, TransferFails, At
<1>2. UNCHANGED <<page, listVars>> /\ BookTypes' /\ todo' \in [Loops -> SUBSET Sessions] /\ SessionOver(l)
  BY BookStep, GetsOnStep DEF Transfer, TransferFails, LoopTypes
<1>5. AdapterTypes' /\ shown'[l] \in Sessions /\ \A k \in Loops \ {l} : shown'[k] = shown[k]
  <2>1. (GetsOn(l) \/ GetsOnAndFails(l) \/ EnsureBreaks(l)) \/ UNCHANGED adapterVars
    BY DEF Transfer, TransferFails
  <2>2. CASE GetsOn(l) \/ GetsOnAndFails(l) \/ EnsureBreaks(l)
    BY <1>1, <2>2, EnsureTypes
  <2>3. CASE UNCHANGED adapterVars
    BY <1>1, <2>3 DEF adapterVars, AdapterTypes
  <2> QED
    BY <2>1, <2>2, <2>3
<1>6. PlatformTypes'
  <2>1. CASE UNCHANGED transferred
    BY <1>2, <2>1, PlatformStays
  <2>2. CASE Clicks(l)
    <3>1. [record |-> Pending(l), chat |-> shown'[l]] \in [record : Records, chat : Sessions]
      BY <1>1, <1>5
    <3>2. transferred' \subseteq [record : Records, chat : Sessions]
      BY <2>2, <3>1 DEF Clicks, PlatformTypes
    <3> QED
      BY <1>2, <3>2 DEF PlatformTypes, listVars
  <2> QED
    BY <2>1, <2>2 DEF Transfer, TransferFails
<1>7. DbTypes' /\ UNCHANGED <<saved, replies, Escalated>>
  <2>1. CASE UNCHANGED dbVars
    BY <2>1 DEF dbVars, DbTypes, Escalated
  <2>2. CASE UpdateLog(l, TRUE) \/ UpdateLog(l, FALSE)
    BY <2>2, LogTypes
  <2> QED
    BY <2>1, <2>2 DEF Transfer, TransferFails
<1> QED
  BY <1>2, <1>5, <1>6, <1>7, SessionOverStep

LEMMA StartAnewTypes ==
    ASSUME PipelineAssumption, TypesInv, NEW l \in Loops, StartAnew(l)
    PROVE  TypesInv' /\ OthersStay(l) /\ pc'[l] = "idle"
<1> USE DEF TypesInv, TypeOK
<1>1. pc' \in [Loops -> Places] /\ pc'[l] = "idle" /\ \A k \in Loops \ {l} : pc'[k] = pc[k]
  BY DEF StartAnew, Goto, LoopTypes, Places
<1>2. /\ config' \in [Loops -> Configurations \cup {NoConfiguration}]
      /\ todo' \in [Loops -> SUBSET Sessions]
      /\ history' \in [Loops -> SUBSET Messages]
  BY DEF StartAnew, LoopTypes
<1>3. cur' \in [Loops -> Sessions \cup {NoSession}] /\ \A k \in Loops \ {l} : cur'[k] = cur[k]
  BY DEF StartAnew, LoopTypes
<1>4. pending' \in [Loops -> Messages \cup {NoMessage}] /\ \A k \in Loops \ {l} : pending'[k] = pending[k]
  BY DEF StartAnew, LoopTypes
<1>5. AdapterTypes' /\ \A k \in Loops \ {l} : shown'[k] = shown[k]
  BY DEF StartAnew, AdapterTypes
<1>6. PlatformTypes' /\ DbTypes' /\ BookTypes'
  BY BookStep, PlatformStays DEF StartAnew, platformVars, dbVars, DbTypes
<1>7. OthersStay(l)
  BY <1>1, <1>3, <1>4, <1>5 DEF OthersStay
<1>8. PlacesInv'
  BY <1>1, <1>7, PlacesStep
<1> QED
  BY <1>1, <1>2, <1>3, <1>4, <1>5, <1>6, <1>7, <1>8 DEF LoopTypes

LEMMA WritesTypes ==
    ASSUME PipelineAssumption, PlatformTypes, NEW s \in Sessions, NEW kind \in BuyerKinds \cup {"agent"},
           Writes(s, kind), listed' \in SUBSET Sessions, UNCHANGED <<unwatched, transferred>>
    PROVE  PlatformTypes'
<1> DEFINE t == [kind |-> kind, about |-> NoRecord]
<1>1. t \in Texts
  BY DEF Texts, SellerKinds
<1>2. page' = [page EXCEPT ![s] = Append(@, t)] /\ Len(page[s]) < MaxLength
  BY DEF Writes
<1> HIDE DEF t
<1>3. /\ page' \in [Sessions -> Seq(Texts)]
      /\ \A u \in Sessions : \A i \in DOMAIN page'[u] : page'[u][i].kind \in BuyerKinds => i \in 1..MaxLength
  BY <1>1, <1>2, AppendTypes
<1> QED
  BY <1>3 DEF PlatformTypes

LEMMA OutsideTypes ==
    ASSUME PipelineAssumption, TypesInv, NEW s \in Sessions, Outside(s)
    PROVE  /\ TypesInv' /\ UNCHANGED <<pc, cur, pending, shown, saved, replies, escalations>>
           /\ \/ UNCHANGED page
              \/ \E kind \in BuyerKinds \cup {"agent"} : Writes(s, kind)
<1> USE DEF TypesInv, TypeOK
<1>1. LoopTypes' /\ AdapterTypes' /\ PlacesInv' /\ UNCHANGED <<pc, cur, pending, shown, saved, replies, escalations>>
  BY DEF Outside, BuyerWrites, AgentWrites, ChatCloses, Marks, Takeover, dbVars, adapterVars, loopVars,
         LoopTypes, AdapterTypes, PlacesInv
<1>2. CASE BuyerWrites(s)
  <2>1. PICK kind \in BuyerKinds : Writes(s, kind)
    BY <1>2 DEF BuyerWrites
  <2>2. DbTypes' /\ BookTypes' /\ UNCHANGED <<unwatched, transferred>> /\ listed' \in SUBSET Sessions
    BY <1>2, BookStep DEF BuyerWrites, dbVars, DbTypes, PlatformTypes
  <2> QED
    BY <1>1, <2>1, <2>2, WritesTypes
<1>3. CASE AgentWrites(s)
  <2>1. /\ DbTypes' /\ BookTypes' /\ UNCHANGED <<unwatched, transferred>> /\ listed' \in SUBSET Sessions
        /\ Writes(s, "agent")
    BY <1>3, BookStep DEF AgentWrites, listVars, dbVars, DbTypes, PlatformTypes
  <2> QED
    BY <1>1, <2>1, WritesTypes
<1>4. CASE ChatCloses(s)
  <2>1. DbTypes' /\ PlatformTypes'
    BY <1>4 DEF ChatCloses, dbVars, DbTypes, PlatformTypes
  <2>2. BookTypes'
    BY <1>4 DEF ChatCloses, BookTypes, PipelineAssumption
  <2> QED
    BY <1>1, <1>4, <2>1, <2>2 DEF ChatCloses
<1>5. CASE Takeover(s)
  BY <1>1, <1>5, BookStep, PlatformStays DEF Takeover, platformVars, DbTypes
<1>6. CASE Marks(s)
  <2>1. DbTypes' /\ BookTypes' /\ UNCHANGED page
    BY <1>6, BookStep DEF Marks, dbVars, DbTypes
  <2>2. unwatched' \in SUBSET Sessions /\ UNCHANGED <<listed, transferred>>
    BY <1>6 DEF Marks, PlatformTypes
  <2> QED
    BY <1>1, <2>1, <2>2 DEF PlatformTypes
<1> QED
  BY <1>2, <1>3, <1>4, <1>5, <1>6 DEF Outside

LEMMA TypesInit ==
    ASSUME PipelineAssumption, Init
    PROVE  TypesInv
<1>1. page \in [Sessions -> Seq(Texts)] /\ \A s \in Sessions : DOMAIN page[s] = {}
  BY DEF Init
<1>2. PlatformTypes
  BY <1>1 DEF Init, PlatformTypes
<1>3. DbTypes /\ AdapterTypes /\ BookTypes
  BY DEF Init, DbTypes, AdapterTypes, BookTypes, PipelineAssumption
<1>4. LoopTypes
  BY DEF Init, LoopTypes, Places
<1>5. PlacesInv
  BY DEF Init, PlacesInv
<1> QED
  BY <1>2, <1>3, <1>4, <1>5 DEF TypesInv, TypeOK

-----------------------------------------------------------------------------
(* What the ledger sees of a step *)

Own == {"reply", "notice"}

\* A new text adds one delivery if the pipeline has typed it, and none otherwise.
LEMMA DeliveredAppend ==
    ASSUME PipelineAssumption, PlatformTypes, NEW s \in Sessions, NEW t \in Texts,
           page' = [page EXCEPT ![s] = Append(@, t)],
           t.kind \in SellerKinds \/ Len(page[s]) < MaxLength
    PROVE  /\ t.kind \in Own =>
                Delivered' = Delivered \cup {[record |-> t.about, chat |-> s, place |-> Len(page[s]) + 1]}
           /\ t.kind \notin Own => Delivered' = Delivered
<1> DEFINE n == Len(page[s]) + 1
           new == [record |-> t.about, chat |-> s, place |-> n]
           In(d, u, i) == d = [record |-> page[u][i].about, chat |-> u, place |-> i]
           InNext(d, u, i) == d = [record |-> page'[u][i].about, chat |-> u, place |-> i]
<1>1. /\ \A u \in Sessions \ {s} : page'[u] = page[u]
      /\ DOMAIN page'[s] = DOMAIN page[s] \cup {n}
      /\ n \notin DOMAIN page[s]
      /\ \A i \in DOMAIN page[s] : page'[s][i] = page[s][i]
      /\ page'[s][n] = t
  BY AppendTypes
<1>2. \A d : d \in Delivered <=>
         \E u \in Sessions : \E i \in DOMAIN page[u] : page[u][i].kind \in Own /\ In(d, u, i)
  BY DEF Delivered, Own
<1>3. \A d : d \in Delivered' <=>
         \E u \in Sessions : \E i \in DOMAIN page'[u] : page'[u][i].kind \in Own /\ InNext(d, u, i)
  BY DEF Delivered, Own
<1>4. Delivered \subseteq Delivered'
  <2> SUFFICES ASSUME NEW d \in Delivered PROVE d \in Delivered'
    OBVIOUS
  <2>1. PICK u \in Sessions : \E i \in DOMAIN page[u] : page[u][i].kind \in Own /\ In(d, u, i)
    BY <1>2
  <2>2. PICK i \in DOMAIN page[u] : page[u][i].kind \in Own /\ In(d, u, i)
    BY <2>1
  <2>3. i \in DOMAIN page'[u] /\ page'[u][i] = page[u][i]
    BY <1>1
  <2> QED
    BY <1>3, <2>2, <2>3
<1>5. \A d \in Delivered' : d \in Delivered \/ (d = new /\ t.kind \in Own)
  <2> SUFFICES ASSUME NEW d \in Delivered', d \notin Delivered PROVE d = new /\ t.kind \in Own
    OBVIOUS
  <2>1. PICK u \in Sessions : \E i \in DOMAIN page'[u] : page'[u][i].kind \in Own /\ InNext(d, u, i)
    BY <1>3
  <2>2. PICK i \in DOMAIN page'[u] : page'[u][i].kind \in Own /\ InNext(d, u, i)
    BY <2>1
  <2>3. ~(i \in DOMAIN page[u] /\ page'[u][i] = page[u][i])
    BY <1>2, <2>2
  <2>4. u = s /\ i = n
    BY <1>1, <2>3
  <2> QED
    BY <1>1, <2>2, <2>4
<1>6. t.kind \in Own => new \in Delivered'
  BY <1>1, <1>3
<1> QED
  BY <1>4, <1>5, <1>6

Rests(l) ==
    /\ pc'[l] \notin Handling
    /\ saved' = saved \/ \E r \in Records : saved' = saved \cup {r}
    /\ UNCHANGED <<replies, Escalated, Delivered>>

Saves(l) ==
    /\ pc'[l] = "deciding"
    /\ Pending(l) \in Records \ saved
    /\ saved' = saved \cup {Pending(l)}
    /\ UNCHANGED <<cur, pending, replies, Escalated, Delivered>>

Replies(l) ==
    /\ pc[l] = "deciding" /\ pc'[l] = "sending"
    /\ replies' = replies \cup {Pending(l)}
    /\ UNCHANGED <<cur, pending, saved, Escalated, Delivered>>

Escalates(l) ==
    /\ pc[l] = "deciding" /\ pc'[l] \in {"noticing", "transferring"}
    /\ Escalated' = Escalated \cup {Pending(l)}
    /\ UNCHANGED <<cur, pending, saved, replies, Delivered>>

Delivers(l) ==
    /\ pc[l] \in {"sending", "noticing"} /\ pc'[l] \notin Handling
    /\ \E d : d.record = Pending(l) /\ Delivered' = Delivered \cup {d}
    /\ UNCHANGED <<saved, replies, Escalated>>

LedgerStep(l) ==
    /\ OthersStay(l)
    /\ Rests(l) \/ Saves(l) \/ Replies(l) \/ Escalates(l) \/ Delivers(l)

LEMMA StaysDelivered ==
    ASSUME UNCHANGED page
    PROVE  UNCHANGED Delivered
BY DEF Delivered

LEMMA StaysEscalated ==
    ASSUME UNCHANGED escalations
    PROVE  UNCHANGED Escalated
BY DEF Escalated

\* Every step of a loop keeps the types and is one of five for the ledger.
LEMMA LoopSteps ==
    ASSUME PipelineAssumption, TypesInv, NEW l \in Loops, LoopStep(l) \/ Reload(l) \/ StartAnew(l)
    PROVE  TypesInv' /\ LedgerStep(l)
<1> USE DEF LedgerStep, Handling
<1>1. ASSUME UNCHANGED <<page, saved, replies, escalations>>, OthersStay(l),
             pc'[l] \notin {"deciding", "sending", "noticing"}
      PROVE  LedgerStep(l)
  BY <1>1, StaysDelivered, StaysEscalated DEF Rests
<1>2. CASE ListSessions(l)
  BY <1>1, <1>2, ListSessionsTypes DEF ListSessions, platformVars, dbVars
<1>3. CASE \E s \in Sessions : SwitchTo(l, s)
  BY <1>1, <1>3, SwitchToTypes DEF SwitchTo, platformVars, dbVars
<1>4. CASE \E s \in Sessions : SwitchFails(l, s)
  BY <1>1, <1>4, SwitchFailsTypes DEF SwitchFails, platformVars, dbVars
<1>5. CASE Fetch(l) \/ FetchUnordered(l)
  BY <1>1, <1>5, FetchTypes DEF Fetch, FetchUnordered, platformVars, dbVars
<1>6. CASE FetchFails(l)
  BY <1>1, <1>6, FetchFailsTypes DEF FetchFails, platformVars, dbVars
<1>7. CASE StoreNext(l)
  <2>1. /\ TypesInv' /\ OthersStay(l) /\ pc'[l] \in {"idle", "next", "storing", "saving"}
        /\ \E r \in Records : Save(r)
    BY <1>7, StoreNextTypes
  <2>2. UNCHANGED page
    BY <1>7 DEF StoreNext, platformVars
  <2>3. Rests(l)
    BY <2>1, <2>2, StaysDelivered, StaysEscalated DEF Rests, Save
  <2> QED
    BY <2>1, <2>3
<1>8. CASE SavePending(l)
  <2>1. UNCHANGED page
    BY <1>8 DEF SavePending, platformVars
  <2>2. TypesInv' /\ OthersStay(l)
    BY <1>8, SavePendingTypes
  <2>3. CASE UNCHANGED <<saved, replies, escalations>> /\ pc'[l] \in {"idle", "next"}
    BY <1>1, <2>1, <2>2, <2>3
  <2>4. CASE Pending(l) \in Records \ saved /\ Save(Pending(l)) /\ pc'[l] \in {"idle", "next"}
    BY <2>1, <2>2, <2>4, StaysDelivered, StaysEscalated DEF Rests, Save
  <2>5. CASE Pending(l) \in Records \ saved /\ Save(Pending(l)) /\ pc'[l] = "deciding" /\ UNCHANGED <<cur, pending>>
    BY <2>1, <2>2, <2>5, StaysDelivered, StaysEscalated DEF Saves, Save
  <2> QED
    BY <1>8, <2>3, <2>4, <2>5, SavePendingTypes
<1>9. CASE Escalate(l)
  <2>1. TypesInv' /\ OthersStay(l) /\ pc'[l] \in {"noticing", "transferring"}
    BY <1>9, EscalateTypes
  <2>2. UNCHANGED <<page, saved, replies, cur, pending>> /\ pc[l] = "deciding"
    BY <1>9 DEF Escalate, platformVars, At
  <2> DEFINE row == [record |-> Pending(l), by |-> l, success |-> FALSE]
  <2>3. escalations' = escalations \cup {row} /\ row.record = Pending(l)
    BY <1>9 DEF Escalate
  <2> HIDE DEF row
  <2>4. Escalated' = Escalated \cup {Pending(l)}
    BY <2>3 DEF Escalated
  <2> QED
    BY <2>1, <2>2, <2>4, StaysDelivered DEF Escalates
<1>10. CASE Reply(l)
  <2>1. TypesInv' /\ OthersStay(l) /\ pc'[l] = "sending"
    BY <1>10, ReplyTypes
  <2>2. UNCHANGED <<page, saved, escalations, cur, pending>> /\ pc[l] = "deciding"
    BY <1>10 DEF Reply, platformVars, At
  <2>3. replies' = replies \cup {Pending(l)}
    BY <1>10 DEF Reply
  <2> QED
    BY <2>1, <2>2, <2>3, StaysDelivered, StaysEscalated DEF Replies
<1>11. CASE ProcessingFails(l)
  BY <1>1, <1>11, ProcessingFailsTypes DEF ProcessingFails, platformVars, dbVars
<1>12. ASSUME NEW kind \in {"reply", "notice"}, Types(l, kind), shown'[l] \in Sessions, OthersStay(l),
              pc[l] \in {"sending", "noticing"}, pc'[l] \in {"idle", "next", "transferring"},
              UNCHANGED <<saved, replies, escalations>>
       PROVE  LedgerStep(l)
  <2> DEFINE t == [kind |-> kind, about |-> Pending(l)]
             d == [record |-> t.about, chat |-> shown'[l], place |-> Len(page[shown'[l]]) + 1]
  <2>1. t \in Texts /\ t.kind \in SellerKinds /\ t.kind \in Own /\ t.about = Pending(l)
    BY <1>12, PendingTypes DEF Texts, SellerKinds, Own, TypesInv
  <2>2. page' = [page EXCEPT ![shown'[l]] = Append(@, t)]
    BY <1>12 DEF Types
  <2> HIDE DEF t
  <2>3. Delivered' = Delivered \cup {d}
    BY <1>12, <2>1, <2>2, DeliveredAppend DEF TypesInv, TypeOK
  <2>4. d.record = Pending(l)
    BY <2>1
  <2> QED
    BY <1>12, <2>3, <2>4, StaysEscalated DEF Delivers
<1>13. CASE Send(l) \/ SendFails(l)
  <2>1. /\ TypesInv' /\ OthersStay(l) /\ pc'[l] \in {"idle", "next"} /\ pc[l] = "sending"
        /\ UNCHANGED <<saved, replies, escalations>>
        /\ UNCHANGED page \/ (Types(l, "reply") /\ shown'[l] \in Sessions)
    BY <1>13, SendTypes
  <2> QED
    BY <1>1, <1>12, <2>1
<1>14. CASE SendNotice(l) \/ NoticeFails(l)
  <2>1. /\ TypesInv' /\ OthersStay(l) /\ pc'[l] \in {"idle", "next", "transferring"} /\ pc[l] = "noticing"
        /\ UNCHANGED <<saved, replies, escalations>>
        /\ UNCHANGED page \/ (Types(l, "notice") /\ shown'[l] \in Sessions)
    BY <1>14, NoticeTypes
  <2> QED
    BY <1>1, <1>12, <2>1
<1>15. CASE Transfer(l) \/ TransferFails(l)
  BY <1>15, TransferTypes, StaysDelivered DEF Rests
<1>16. CASE Reload(l)
  BY <1>1, <1>16, ReloadTypes DEF Reload, platformVars, dbVars
<1>17. CASE StartAnew(l)
  BY <1>1, <1>17, StartAnewTypes DEF StartAnew, platformVars, dbVars
<1> QED
  BY <1>2, <1>3, <1>4, <1>5, <1>6, <1>7, <1>8, <1>9, <1>10, <1>11, <1>13, <1>14, <1>15, <1>16, <1>17
     DEF LoopStep, Poll, Process, Act

LEMMA OutsideSteps ==
    ASSUME PipelineAssumption, TypesInv, NEW s \in Sessions, Outside(s)
    PROVE  /\ TypesInv'
           /\ UNCHANGED <<pc, cur, pending, saved, replies, Escalated, Delivered>>
<1>1. /\ TypesInv' /\ UNCHANGED <<pc, cur, pending, shown, saved, replies, escalations>>
      /\ \/ UNCHANGED page
         \/ \E kind \in BuyerKinds \cup {"agent"} : Writes(s, kind)
  BY OutsideTypes
<1>2. ASSUME NEW kind \in BuyerKinds \cup {"agent"}, Writes(s, kind)
      PROVE  UNCHANGED Delivered
  <2> DEFINE t == [kind |-> kind, about |-> NoRecord]
  <2>1. t \in Texts /\ t.kind \notin Own
    BY DEF Texts, SellerKinds, BuyerKinds, Own
  <2>2. page' = [page EXCEPT ![s] = Append(@, t)] /\ Len(page[s]) < MaxLength
    BY <1>2 DEF Writes
  <2> HIDE DEF t
  <2> QED
    BY <2>1, <2>2, DeliveredAppend DEF TypesInv, TypeOK
<1> QED
  BY <1>1, <1>2, StaysDelivered, StaysEscalated

-----------------------------------------------------------------------------
(* The invariant behind the ledger *)

LEMMA PendingStays ==
    ASSUME NEW k \in Loops, cur'[k] = cur[k], pending'[k] = pending[k]
    PROVE  Pending(k)' = Pending(k)
BY DEF Pending

LEMMA LedgerInvStays ==
    ASSUME LedgerInv, PlacesInv', UNCHANGED <<pc, cur, pending, saved, replies, Escalated, Delivered>>
    PROVE  LedgerInv'
BY DEF LedgerInv, DecisionsInv, DeliveriesInv, OneHandlerInv, Decided, At, Pending

LEMMA DecisionsStep ==
    ASSUME LedgerInv, NEW l \in Loops, LedgerStep(l)
    PROVE  DecisionsInv'
<1>1. /\ Decided \subseteq saved /\ replies \cap Escalated = {}
      /\ \A k \in Loops : pc[k] = "deciding" => Pending(k) \in saved \ Decided
      /\ \A k \in Loops : pc[k] = "sending" => Pending(k) \in replies
      /\ \A k \in Loops : pc[k] = "noticing" => Pending(k) \in Escalated
  BY DEF LedgerInv, DecisionsInv, At
<1>2. \A k \in Loops \ {l} : pc'[k] = pc[k] /\ Pending(k)' = Pending(k)
  BY PendingStays DEF LedgerStep, OthersStay
<1>3. ASSUME UNCHANGED <<cur, pending>> PROVE Pending(l)' = Pending(l)
  BY <1>3, PendingStays
<1>4. ASSUME NEW k \in Loops \ {l}, pc[l] = "deciding", pc[k] = "deciding"
      PROVE  Pending(k) # Pending(l)
  BY <1>4 DEF LedgerInv, OneHandlerInv, Handling
<1>5. /\ (Decided \subseteq saved /\ replies \cap Escalated = {})'
      /\ \A k \in Loops \ {l} : pc'[k] = "deciding" => Pending(k)' \in (saved \ Decided)'
      /\ \A k \in Loops \ {l} : pc'[k] = "sending" => Pending(k)' \in replies'
      /\ \A k \in Loops \ {l} : pc'[k] = "noticing" => Pending(k)' \in Escalated'
      /\ pc'[l] = "deciding" => Pending(l)' \in (saved \ Decided)'
      /\ pc'[l] = "sending" => Pending(l)' \in replies'
      /\ pc'[l] = "noticing" => Pending(l)' \in Escalated'
  <2>1. CASE Rests(l)
    BY <1>1, <1>2, <2>1 DEF Rests, Handling, Decided
  <2>2. CASE Saves(l)
    BY <1>1, <1>2, <1>3, <2>2 DEF Saves, Decided
  <2>3. CASE Replies(l)
    BY <1>1, <1>2, <1>3, <1>4, <2>3 DEF Replies, Decided
  <2>4. CASE Escalates(l)
    BY <1>1, <1>2, <1>3, <1>4, <2>4 DEF Escalates, Decided
  <2>5. CASE Delivers(l)
    BY <1>1, <1>2, <2>5 DEF Delivers, Handling, Decided
  <2> QED
    BY <2>1, <2>2, <2>3, <2>4, <2>5 DEF LedgerStep
<1> QED
  BY <1>5 DEF DecisionsInv, At

LEMMA OneHandlerStep ==
    ASSUME LedgerInv, NEW l \in Loops, LedgerStep(l)
    PROVE  OneHandlerInv'
<1>1. \A k \in Loops \ {l} : pc'[k] = pc[k] /\ Pending(k)' = Pending(k)
  BY PendingStays DEF LedgerStep, OthersStay
<1>2. \A k \in Loops : pc[k] \in Handling => Pending(k) \in saved
  BY DEF LedgerInv, DecisionsInv, Decided, Handling, At
<1>3. \A k \in Loops \ {l} : pc'[l] \in Handling /\ pc'[k] \in Handling => Pending(k)' # Pending(l)'
  <2>1. CASE Rests(l) \/ Delivers(l)
    BY <2>1 DEF Rests, Delivers
  <2>2. CASE Saves(l)
    <3>1. Pending(l)' = Pending(l) /\ Pending(l) \notin saved
      BY <2>2, PendingStays DEF Saves
    <3> QED
      BY <1>1, <1>2, <3>1
  <2>3. CASE Replies(l) \/ Escalates(l)
    <3>1. Pending(l)' = Pending(l) /\ pc[l] \in Handling
      BY <2>3, PendingStays DEF Replies, Escalates, Handling
    <3> QED
      BY <1>1, <3>1 DEF LedgerInv, OneHandlerInv
  <2> QED
    BY <2>1, <2>2, <2>3 DEF LedgerStep
<1>4. \A k, j \in Loops \ {l} :
         k # j /\ pc'[k] \in Handling /\ pc'[j] \in Handling => Pending(k)' # Pending(j)'
  BY <1>1 DEF LedgerInv, OneHandlerInv
<1> QED
  BY <1>3, <1>4 DEF OneHandlerInv

LEMMA DeliveriesStep ==
    ASSUME LedgerInv, NEW l \in Loops, LedgerStep(l)
    PROVE  DeliveriesInv'
<1>1. /\ \A d \in Delivered : d.record \in Decided
      /\ \A k \in Loops : pc[k] \in {"sending", "noticing"} => \A d \in Delivered : d.record # Pending(k)
  BY DEF LedgerInv, DeliveriesInv
<1>2. \A k \in Loops \ {l} : pc'[k] = pc[k] /\ Pending(k)' = Pending(k)
  BY PendingStays DEF LedgerStep, OthersStay
<1>3. \A k \in Loops : /\ pc[k] \in {"sending", "noticing"} => Pending(k) \in Decided
                       /\ pc[k] = "deciding" => Pending(k) \notin Decided
  BY DEF LedgerInv, DecisionsInv, Decided, At
<1>4. Decided \subseteq Decided'
  BY DEF LedgerStep, Rests, Saves, Replies, Escalates, Delivers, Decided
<1>5. CASE Rests(l) \/ Saves(l)
  BY <1>1, <1>2, <1>4, <1>5 DEF Rests, Saves, Handling, DeliveriesInv
<1>6. CASE Replies(l) \/ Escalates(l)
  <2>1. Pending(l)' = Pending(l) /\ UNCHANGED Delivered /\ pc[l] = "deciding"
    BY <1>6, PendingStays DEF Replies, Escalates
  <2> QED
    BY <1>1, <1>2, <1>3, <1>4, <2>1 DEF DeliveriesInv
<1>7. CASE Delivers(l)
  <2>1. PICK d : d.record = Pending(l) /\ Delivered' = Delivered \cup {d}
    BY <1>7 DEF Delivers
  <2>2. pc[l] \in {"sending", "noticing"} /\ pc'[l] \notin {"sending", "noticing"}
    BY <1>7 DEF Delivers, Handling
  <2>3. d.record \in Decided
    BY <1>3, <2>1, <2>2
  <2>4. \A k \in Loops \ {l} : pc[k] \in {"sending", "noticing"} => d.record # Pending(k)
    BY <2>1, <2>2 DEF LedgerInv, OneHandlerInv, Handling
  <2>5. \A e \in Delivered' : e.record \in Decided'
    BY <1>1, <1>4, <2>1, <2>3
  <2>6. \A k \in Loops : pc'[k] \in {"sending", "noticing"} => \A e \in Delivered' : e.record # Pending(k)'
    BY <1>1, <1>2, <2>1, <2>2, <2>4
  <2> QED
    BY <2>5, <2>6 DEF DeliveriesInv
<1> QED
  BY <1>5, <1>6, <1>7 DEF LedgerStep

PipelineInv == TypeOK /\ LedgerInv

LEMMA PipelineInvInit ==
    ASSUME PipelineAssumption, Init
    PROVE  PipelineInv
<1>1. TypeOK /\ PlacesInv
  BY TypesInit DEF TypesInv
<1>2. Escalated = {}
  BY DEF Init, Escalated
<1>3. Delivered = {}
  BY DEF Init, Delivered
<1>4. replies = {} /\ saved = {} /\ \A l \in Loops : pc[l] = "idle"
  BY DEF Init
<1>5. DecisionsInv /\ DeliveriesInv /\ OneHandlerInv
  BY <1>2, <1>3, <1>4 DEF DecisionsInv, DeliveriesInv, OneHandlerInv, Decided, Handling, At
<1> QED
  BY <1>1, <1>5 DEF PipelineInv, LedgerInv

LEMMA PipelineInvStep ==
    ASSUME PipelineAssumption, PipelineInv, [Next]_vars
    PROVE  PipelineInv'
<1> USE DEF PipelineInv
<1>1. TypesInv
  BY DEF TypesInv, LedgerInv
<1>2. ASSUME NEW l \in Loops, LoopStep(l) \/ Reload(l) \/ StartAnew(l)
      PROVE  PipelineInv'
  <2>1. TypesInv' /\ LedgerStep(l)
    BY <1>1, <1>2, LoopSteps
  <2>2. DecisionsInv' /\ DeliveriesInv' /\ OneHandlerInv'
    BY <2>1, DecisionsStep, DeliveriesStep, OneHandlerStep
  <2> QED
    BY <2>1, <2>2 DEF TypesInv, LedgerInv
<1>3. ASSUME NEW s \in Sessions, Outside(s)
      PROVE  PipelineInv'
  BY <1>1, <1>3, OutsideSteps, LedgerInvStays DEF TypesInv
<1>4. CASE UNCHANGED vars
  <2>1. TypesInv'
    BY <1>1, <1>4 DEF vars, platformVars, listVars, dbVars, adapterVars, loopVars, bookVars, TypesInv, TypeOK,
                      PlatformTypes, DbTypes, AdapterTypes, LoopTypes, BookTypes, PlacesInv
  <2>2. UNCHANGED <<pc, cur, pending, saved, replies, Escalated, Delivered>>
    BY <1>4, StaysDelivered, StaysEscalated DEF vars, platformVars, dbVars, loopVars
  <2> QED
    BY <2>1, <2>2, LedgerInvStays DEF TypesInv
<1> QED
  BY <1>2, <1>3, <1>4 DEF Next

\* Every variable of the pipeline keeps its type.
THEOREM PipelineTypeCorrect == Spec => []TypeOK
<1>1. Init => PipelineInv
  BY PipelineInvInit, PipelineAssumption
<1>2. PipelineInv /\ [Next]_vars => PipelineInv'
  BY PipelineInvStep, PipelineAssumption
<1>3. PipelineInv => TypeOK
  BY DEF PipelineInv
<1> QED
  BY <1>1, <1>2, <1>3, PTL DEF Spec

\* From its dedup key to its text, a message is in the hands of one loop at
\* most, and is recorded before it is decided and decided before it has a text:
\* _save_message, _mark_escalated, _append_ai_reply and send_message, in the
\* order in which process_buyer_message and _process_session call them.
THEOREM LedgerInvariant == Spec => []LedgerInv
<1>1. Init => PipelineInv
  BY PipelineInvInit, PipelineAssumption
<1>2. PipelineInv /\ [Next]_vars => PipelineInv'
  BY PipelineInvStep, PipelineAssumption
<1>3. PipelineInv => LedgerInv
  BY DEF PipelineInv
<1> QED
  BY <1>1, <1>2, <1>3, PTL DEF Spec

-----------------------------------------------------------------------------
(* The refinement *)

LEMMA LedgerInit ==
    ASSUME Init
    PROVE  Ledger!Init
BY DEF Init, Ledger!Init, Escalated, Delivered

\* Each of the five kinds of a step is a step of the ledger or none.
LEMMA LedgerNext ==
    ASSUME PipelineAssumption, PipelineInv, NEW l \in Loops, LedgerStep(l)
    PROVE  [Ledger!Next]_Ledger!ledgerVars
<1>1. /\ Decided \subseteq saved
      /\ pc[l] = "deciding" => Pending(l) \in saved \ Decided
      /\ pc[l] \in {"sending", "noticing"} => Pending(l) \in Decided
  BY DEF PipelineInv, LedgerInv, DecisionsInv, Decided, At
<1>2. saved \subseteq Records
  BY DEF PipelineInv, TypeOK, DbTypes
<1>3. CASE Rests(l)
  <2>1. CASE saved' = saved
    BY <1>3, <2>1 DEF Rests, Ledger!ledgerVars
  <2>2. CASE saved' # saved
    <3>1. PICK r \in Records : saved' = saved \cup {r}
      BY <1>3, <2>2 DEF Rests
    <3>2. Ledger!Record(r)
      BY <1>3, <2>2, <3>1 DEF Rests, Ledger!Record
    <3> QED
      BY <3>2 DEF Ledger!Next
  <2> QED
    BY <2>1, <2>2
<1>4. CASE Saves(l)
  <2>1. Ledger!Record(Pending(l)) /\ Pending(l) \in Records
    BY <1>4 DEF Saves, Ledger!Record
  <2> QED
    BY <2>1 DEF Ledger!Next
<1>5. CASE Replies(l)
  <2>1. Ledger!Reply(Pending(l)) /\ Pending(l) \in Records
    BY <1>1, <1>2, <1>5 DEF Replies, Decided, Ledger!Reply, Ledger!Undecided
  <2> QED
    BY <2>1 DEF Ledger!Next
<1>6. CASE Escalates(l)
  <2>1. Ledger!Escalate(Pending(l)) /\ Pending(l) \in Records
    BY <1>1, <1>2, <1>6 DEF Escalates, Decided, Ledger!Escalate, Ledger!Undecided
  <2> QED
    BY <2>1 DEF Ledger!Next
<1>7. CASE Delivers(l)
  <2>1. PICK d : d.record = Pending(l) /\ Delivered' = Delivered \cup {d}
    BY <1>7 DEF Delivers
  <2>2. \A e \in Delivered : e.record # Pending(l)
    BY <1>7 DEF Delivers, PipelineInv, LedgerInv, DeliveriesInv
  <2>3. Ledger!Deliver(Pending(l)) /\ Pending(l) \in Records
    BY <1>1, <1>2, <1>7, <2>1, <2>2 DEF Delivers, Decided, Ledger!Deliver
  <2> QED
    BY <2>3 DEF Ledger!Next
<1> QED
  BY <1>3, <1>4, <1>5, <1>6, <1>7 DEF LedgerStep

\* Whatever fails and however many loops work on the shop, each record, which is a
\* message of a buyer as filed under a session, is written once, decided at most
\* once, for a reply of the AI or for an escalation, and gets at most one text,
\* after its decision was recorded.
THEOREM PipelineImplementsLedger == Spec => ImplementsLedger
<1>1. Init => PipelineInv /\ Ledger!Init
  BY PipelineInvInit, LedgerInit, PipelineAssumption
<1>2. PipelineInv /\ [Next]_vars => PipelineInv'
  BY PipelineInvStep, PipelineAssumption
<1>3. PipelineInv /\ [Next]_vars => [Ledger!Next]_Ledger!ledgerVars
  <2> SUFFICES ASSUME PipelineInv, [Next]_vars
               PROVE  [Ledger!Next]_Ledger!ledgerVars
    OBVIOUS
  <2>1. TypesInv
    BY DEF PipelineInv, TypesInv, LedgerInv
  <2>2. ASSUME NEW l \in Loops, LoopStep(l) \/ Reload(l) \/ StartAnew(l)
        PROVE  [Ledger!Next]_Ledger!ledgerVars
    BY <2>1, <2>2, LoopSteps, LedgerNext, PipelineAssumption
  <2>3. ASSUME NEW s \in Sessions, Outside(s)
        PROVE  UNCHANGED Ledger!ledgerVars
    BY <2>1, <2>3, OutsideSteps, PipelineAssumption DEF Ledger!ledgerVars
  <2>4. CASE UNCHANGED vars
    BY <2>4, StaysDelivered, StaysEscalated DEF vars, platformVars, dbVars, Ledger!ledgerVars
  <2> QED
    BY <2>2, <2>3, <2>4 DEF Next
<1> QED
  BY <1>1, <1>2, <1>3, PTL DEF Spec, ImplementsLedger, Ledger!Spec
=============================================================================
