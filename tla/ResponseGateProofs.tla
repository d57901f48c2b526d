-------------------------- MODULE ResponseGateProofs --------------------------
(***************************************************************************)
(* Theorems about the evidence gate, for any runs and tools, any number of *)
(* fallback entries and calls, however the host answers.                   *)
(***************************************************************************)
EXTENDS ResponseGate, FiniteSetTheorems, WellFoundedInduction, TLAPS

-----------------------------------------------------------------------------
(* The bound of the fallback map *)

\* A set of natural numbers that is not empty has a least element.
LEMMA LeastExists ==
    ASSUME NEW T, T \subseteq Nat, T # {}
    PROVE  \E x \in T : \A y \in T : ~(y < x)
<1> DEFINE R == OpToRel(<, Nat)
<1>1. IsWellFoundedOn(R, Nat)
  BY NatLessThanWellFounded
<1>2. \A x, y \in Nat : y < x => <<y, x>> \in R
  BY DEF OpToRel
<1> HIDE DEF R
<1>3. PICK x \in T : \A y \in T : ~(<<y, x>> \in R)
  BY <1>1, WFMin
<1> QED BY <1>2, <1>3

\* The order says who came first, as insertion numbers would.
Ranks(D, order, n) ==
    {rank \in [D -> 0..n] :
        \A s, t \in D : <<s, t>> \in order <=> rank[s] < rank[t]}

Ranked(D, order) == \E n \in Nat : Ranks(D, order, n) # {}

\* The map is finite, within its limit, and its entries have an order.
FallbackInv ==
    /\ IsFiniteSet(DOMAIN fallback)
    /\ Cardinality(DOMAIN fallback) <= MaxFallback
    /\ Ranked(DOMAIN fallback, older)

\* Leaving out entries keeps the order of the others.
LEMMA RankedSubset ==
    ASSUME NEW D, NEW order, Ranked(D, order), NEW E \in SUBSET D
    PROVE  Ranked(E, {p \in order : p[1] \in E /\ p[2] \in E})
<1>0. PICK n \in Nat : Ranks(D, order, n) # {}
  BY DEF Ranked
<1>1. PICK rank \in [D -> 0..n] :
         \A s, t \in D : <<s, t>> \in order <=> rank[s] < rank[t]
  BY <1>0 DEF Ranks
<1> DEFINE rest == [s \in E |-> rank[s]]
<1>2. rest \in [E -> 0..n]
  OBVIOUS
<1>3. \A s, t \in E : <<s, t>> \in {p \in order : p[1] \in E /\ p[2] \in E}
                         <=> rest[s] < rest[t]
  BY <1>1
<1> HIDE DEF rest
<1> QED BY <1>2, <1>3 DEF Ranked, Ranks

\* An entry that is written becomes the newest one.
LEMMA ReorderedRanked ==
    ASSUME FallbackInv, NEW r
    PROVE  Ranked(DOMAIN fallback \cup {r}, Reordered(r))
<1> DEFINE D == DOMAIN fallback
           E == D \ {r}
<1>0. PICK n \in Nat : Ranks(D, older, n) # {}
  BY DEF FallbackInv, Ranked
<1>1. PICK rank \in [D -> 0..n] :
         \A s, t \in D : <<s, t>> \in older <=> rank[s] < rank[t]
  BY <1>0 DEF Ranks
<1> DEFINE rank2 == [s \in D \cup {r} |-> IF s = r THEN n + 1 ELSE rank[s]]
<1>2. rank2 \in [D \cup {r} -> 0..(n + 1)]
  BY <1>1
<1>3. ASSUME NEW s \in D \cup {r}, NEW t \in D \cup {r}
      PROVE  <<s, t>> \in Reordered(r) <=> rank2[s] < rank2[t]
  <2>1. CASE s # r /\ t # r
    BY <1>1, <2>1 DEF Reordered, Among
  <2>2. CASE s # r /\ t = r
    <3>1. <<s, t>> \in Reordered(r)
      BY <2>2 DEF Reordered
    <3>2. rank[s] \in 0..n /\ rank2[s] = rank[s] /\ rank2[t] = n + 1
      BY <2>2
    <3> QED BY <3>1, <3>2
  <2>3. CASE s = r
    <3>1. <<s, t>> \notin Reordered(r)
      BY <2>3 DEF Reordered, Among
    <3>2. rank2[t] \in 0..(n + 1) /\ rank2[s] = n + 1
      BY <1>2, <2>3
    <3> QED BY <3>1, <3>2
  <2> QED BY <2>1, <2>2, <2>3
<1> HIDE DEF rank2
<1>4. n + 1 \in Nat
  OBVIOUS
<1> QED BY <1>2, <1>3, <1>4 DEF Ranked, Ranks

\* In a full map the entry that came first makes room.
LEMMA KeptBounded ==
    ASSUME FallbackInv, NEW r
    PROVE  /\ Kept(r) \subseteq DOMAIN fallback \cup {r}
           /\ IsFiniteSet(Kept(r))
           /\ Cardinality(Kept(r)) <= MaxFallback
<1> DEFINE all == DOMAIN fallback \cup {r}
<1>1. /\ IsFiniteSet(all) /\ Cardinality(all) \in Nat
      /\ Cardinality(all) <= Cardinality(DOMAIN fallback) + 1
  BY FS_AddElement, FS_CardinalityType DEF FallbackInv
<1>2. Cardinality(DOMAIN fallback) \in Nat /\ MaxFallback \in Nat
  BY FS_CardinalityType, ResponseGateAssumption DEF FallbackInv
<1>3. Kept(r) \subseteq all
  BY DEF Kept
<1>4. IsFiniteSet(Kept(r)) /\ Cardinality(Kept(r)) \in Nat
  BY <1>1, <1>3, FS_Subset, FS_CardinalityType
<1>5. CASE ~(Cardinality(all) > MaxFallback)
  <2>1. Kept(r) = all
    BY <1>5 DEF Kept
  <2> QED BY <1>1, <1>2, <1>3, <1>4, <1>5, <2>1
<1>6. CASE Cardinality(all) > MaxFallback
  <2>0. PICK n \in Nat : Ranks(all, Reordered(r), n) # {}
    BY ReorderedRanked DEF Ranked
  <2>1. PICK rank \in [all -> 0..n] :
           \A s, t \in all : <<s, t>> \in Reordered(r) <=> rank[s] < rank[t]
    BY <2>0 DEF Ranks
  <2>2. PICK x \in {rank[s] : s \in all} : \A y \in {rank[s] : s \in all} : ~(y < x)
    <3>1. {rank[s] : s \in all} \subseteq Nat /\ {rank[s] : s \in all} # {}
      OBVIOUS
    <3> QED BY <3>1, LeastExists
  <2>3. PICK oldest \in all : rank[oldest] = x
    OBVIOUS
  <2>4. oldest \notin Kept(r)
    <3>1. \A t \in all : ~(rank[t] < rank[oldest])
      BY <2>2, <2>3
    <3> QED BY <1>6, <2>1, <3>1 DEF Kept
  <2>5. Kept(r) \in SUBSET (all \ {oldest})
    BY <1>3, <2>4
  <2>6. /\ IsFiniteSet(all \ {oldest})
        /\ Cardinality(all \ {oldest}) = Cardinality(all) - 1
    BY <1>1, <2>3, FS_RemoveElement
  <2>7. Cardinality(Kept(r)) <= Cardinality(all) - 1
    BY <2>5, <2>6, FS_Subset
  <2>8. Cardinality(DOMAIN fallback) <= MaxFallback
    BY DEF FallbackInv
  <2> QED BY <1>1, <1>2, <1>3, <1>4, <2>7, <2>8
<1> QED BY <1>5, <1>6

\* agent_end and an accepted write take an entry out of the map.
LEMMA ForgetBounded ==
    ASSUME FallbackInv, NEW r, ForgetFallback(r)
    PROVE  FallbackInv'
<1> DEFINE E == DOMAIN fallback \ {r}
<1>1. DOMAIN fallback' = E /\ older' = {p \in older : p[1] \in E /\ p[2] \in E}
  BY DEF ForgetFallback, Among
<1>2. Ranked(E, {p \in older : p[1] \in E /\ p[2] \in E})
  BY RankedSubset DEF FallbackInv
<1>3. IsFiniteSet(E) /\ Cardinality(E) <= Cardinality(DOMAIN fallback)
  BY FS_Subset DEF FallbackInv
<1>4. /\ Cardinality(E) \in Nat /\ Cardinality(DOMAIN fallback) \in Nat
      /\ MaxFallback \in Nat
  BY <1>3, FS_CardinalityType, ResponseGateAssumption DEF FallbackInv
<1>5. Cardinality(E) <= MaxFallback
  BY <1>3, <1>4 DEF FallbackInv
<1> HIDE DEF E
<1> QED BY <1>1, <1>2, <1>3, <1>5 DEF FallbackInv

\* A write keeps the map within its limit.
LEMMA StoreBounded ==
    ASSUME FallbackInv, NEW r, NEW ledger, StoreRunEvidence(r, ledger)
    PROVE  FallbackInv'
<1>1. CASE ForgetFallback(r)
  BY <1>1, ForgetBounded
<1>2. CASE /\ DOMAIN fallback' = Kept(r)
           /\ older' = {p \in Reordered(r) : p[1] \in Kept(r) /\ p[2] \in Kept(r)}
  <2>1. Ranked(Kept(r), {p \in Reordered(r) : p[1] \in Kept(r) /\ p[2] \in Kept(r)})
    <3>1. Kept(r) \in SUBSET (DOMAIN fallback \cup {r})
      BY KeptBounded
    <3>2. Ranked(DOMAIN fallback \cup {r}, Reordered(r))
      BY ReorderedRanked
    <3> QED BY <3>1, <3>2, RankedSubset
  <2> QED BY <1>2, <2>1, KeptBounded DEF FallbackInv
<1> QED BY <1>1, <1>2 DEF StoreRunEvidence

-----------------------------------------------------------------------------
(* What the steps do to the stores *)

\* The constants as the assumptions give them.
LEMMA GateConstants ==
    /\ RequiredTools \subseteq GuardianTools
    /\ ProposalTool \in GuardianTools
    /\ \A tool \in OtherTools : tool \notin GuardianTools
    /\ MaxAttempts \in Nat \ {0}
    /\ MayBeAnonymous \subseteq Runs
    /\ MaxCalls \in [Runs -> Nat]
BY ResponseGateAssumption

\* A ledger that is read has the type of a ledger.
LEMMA LedgerType ==
    ASSUME TypeOK, NEW r
    PROVE  LedgerOf(r) \in Ledgers
BY DEF TypeOK, LedgerOf, Ledgers

\* A write adds r's new ledger and takes nobody else's place, but for the
\* evicted ones.
LEMMA StoreEffect ==
    ASSUME NEW r, NEW ledger, StoreRunEvidence(r, ledger)
    PROVE  /\ \A s \in DOMAIN runContext' :
                 \/ s = r /\ runContext'[s] = ledger
                 \/ s \in DOMAIN runContext /\ runContext'[s] = runContext[s]
           /\ \A s \in DOMAIN fallback' :
                 \/ s = r /\ fallback'[s] = ledger
                 \/ s \in DOMAIN fallback /\ fallback'[s] = fallback[s]
           /\ evicted \subseteq evicted'
           /\ evicted' \subseteq evicted \cup DOMAIN fallback \cup {r}
           /\ \A p \in older' : p \in older \/ \E s \in DOMAIN fallback : p = <<s, r>>
<1>1. CASE /\ runContext' = [s \in DOMAIN runContext \cup {r} |->
                                IF s = r THEN ledger ELSE runContext[s]]
           /\ ForgetFallback(r)
           /\ UNCHANGED evicted
  BY <1>1 DEF ForgetFallback, Among
<1>2. CASE /\ fallback' = [s \in Kept(r) |-> IF s = r THEN ledger ELSE fallback[s]]
           /\ older' = {p \in Reordered(r) : p[1] \in Kept(r) /\ p[2] \in Kept(r)}
           /\ evicted' = evicted \cup ((DOMAIN fallback \cup {r}) \ Kept(r))
           /\ UNCHANGED runContext
  <2>1. Kept(r) \subseteq DOMAIN fallback \cup {r}
    BY DEF Kept
  <2>2. ASSUME NEW p \in older'
        PROVE  p \in older \/ \E s \in DOMAIN fallback : p = <<s, r>>
    <3>1. p \in Among(DOMAIN fallback \ {r}) \/ p \in (DOMAIN fallback \ {r}) \X {r}
      BY <1>2 DEF Reordered
    <3>2. CASE p \in Among(DOMAIN fallback \ {r})
      BY <3>2 DEF Among
    <3>3. CASE p \in (DOMAIN fallback \ {r}) \X {r}
      BY <3>3
    <3> QED BY <3>1, <3>2, <3>3
  <2> QED BY <1>2, <2>1, <2>2
<1> QED BY <1>1, <1>2 DEF StoreRunEvidence

\* Whoever had evidence keeps it, or was evicted; so does the run that writes.
LEMMA StoreKeepsEvidence ==
    ASSUME NEW r, NEW ledger, StoreRunEvidence(r, ledger), NEW s,
           HasEvidence(s) \/ s = r, s \notin evicted'
    PROVE  HasEvidence(s)'
<1>1. CASE /\ runContext' = [q \in DOMAIN runContext \cup {r} |->
                                IF q = r THEN ledger ELSE runContext[q]]
           /\ ForgetFallback(r)
  BY <1>1 DEF HasEvidence, ForgetFallback
<1>2. CASE /\ fallback' = [q \in Kept(r) |-> IF q = r THEN ledger ELSE fallback[q]]
           /\ evicted' = evicted \cup ((DOMAIN fallback \cup {r}) \ Kept(r))
           /\ UNCHANGED runContext
  BY <1>2 DEF HasEvidence
<1> QED BY <1>1, <1>2 DEF StoreRunEvidence

\* A host that answers alike leaves one of the two stores empty.
OneStore == /\ host = "accepts" => DOMAIN fallback = {}
            /\ host = "rejects" => DOMAIN runContext = {}

\* With such a host a write is read back, and changes no other ledger.
LEMMA StoreReadBack ==
    ASSUME OneStore, host \in {"accepts", "rejects"}, NEW r, NEW ledger,
           StoreRunEvidence(r, ledger), NEW s, s \notin evicted'
    PROVE  LedgerOf(s)' = IF s = r THEN ledger ELSE LedgerOf(s)
<1>1. CASE host = "accepts"
  <2>1. /\ runContext' = [q \in DOMAIN runContext \cup {r} |->
                             IF q = r THEN ledger ELSE runContext[q]]
        /\ DOMAIN fallback' = {} /\ DOMAIN fallback = {}
    BY <1>1 DEF StoreRunEvidence, ForgetFallback, OneStore
  <2> QED BY <2>1 DEF LedgerOf
<1>2. CASE host = "rejects"
  <2>1. /\ fallback' = [q \in Kept(r) |-> IF q = r THEN ledger ELSE fallback[q]]
        /\ s \in DOMAIN fallback \cup {r} => s \in Kept(r)
        /\ Kept(r) \subseteq DOMAIN fallback \cup {r}
        /\ runContext' = runContext /\ DOMAIN runContext = {}
    BY <1>2 DEF StoreRunEvidence, OneStore, Kept
  <2> QED BY <2>1 DEF LedgerOf
<1> QED BY <1>1, <1>2

\* A write goes to the store the host leaves.
LEMMA StoreKeepsOneStore ==
    ASSUME OneStore, host' = host, NEW r, NEW ledger, StoreRunEvidence(r, ledger)
    PROVE  OneStore'
BY DEF OneStore, StoreRunEvidence, ForgetFallback

\* What a run has obtained after a step of run r, in which tool succeeded.
Credited(r, tool) == [succeeded EXCEPT ![r] = @ \cup {tool}]

\* The stores change in three ways: not at all, by what run r has just done,
\* or by the end of a run.
StoresKept ==
    /\ UNCHANGED stores
    /\ \/ succeeded' = succeeded
       \/ \E r \in Runs, tool \in Tools :
             /\ succeeded' = Credited(r, tool)
             /\ mode = "disabled" \/ r \in anonymous \/ tool \notin GuardianTools

StoresWritten(r, ledger) ==
    /\ StoreRunEvidence(r, ledger)
    /\ \/ ledger = LedgerOf(r) /\ succeeded' = succeeded
       \/ \E tool \in GuardianTools : /\ ledger = LedgerOf(r) \cup {tool}
                                      /\ succeeded' = Credited(r, tool)

\* Every step is of one of the three kinds.
LEMMA StoresStep ==
    ASSUME TypeOK, [Next]_vars
    PROVE  \/ StoresKept
           \/ \E r \in Identified, ledger \in Ledgers : StoresWritten(r, ledger)
           \/ \E r \in Identified : AgentEnd(r)
<1>1. ASSUME NEW r \in Runs, BeforeAgentRun(r)
      PROVE  StoresKept \/ \E q \in Identified, ledger \in Ledgers :
                              StoresWritten(q, ledger)
  BY <1>1, LedgerType DEF BeforeAgentRun, StoresKept, StoresWritten, Activated
<1>2. ASSUME NEW r \in Runs, NEW tool \in Tools, NEW incident,
             BeforeToolCall(r, tool, incident)
      PROVE  StoresKept \/ \E q \in Identified, ledger \in Ledgers :
                              StoresWritten(q, ledger)
  <2>1. succeeded' = succeeded
    BY <1>2 DEF BeforeToolCall
  <2>2. WithTool(LedgerOf(r), tool, FALSE) = LedgerOf(r)
    BY DEF WithTool
  <2> QED BY <1>2, <2>1, <2>2, LedgerType DEF BeforeToolCall, StoresKept,
             StoresWritten, Identified
<1>3. ASSUME NEW r \in Runs, NEW tool \in Tools, NEW success \in BOOLEAN,
             AfterToolCall(r, tool, success)
      PROVE  StoresKept \/ \E q \in Identified, ledger \in Ledgers :
                              StoresWritten(q, ledger)
  <2> DEFINE ledger == WithTool(LedgerOf(r), tool, success)
  <2>1. succeeded' = IF success THEN Credited(r, tool) ELSE succeeded
    BY <1>3 DEF AfterToolCall, Credited, TypeOK
  <2>2. CASE ~(mode # "disabled" /\ r \in Identified /\ tool \in GuardianTools)
    <3>1. UNCHANGED stores
      BY <1>3, <2>2 DEF AfterToolCall
    <3> QED BY <2>1, <2>2, <3>1 DEF StoresKept, Identified
  <2>3. CASE mode # "disabled" /\ r \in Identified /\ tool \in GuardianTools
    <3>1. StoreRunEvidence(r, ledger)
      BY <1>3, <2>3 DEF AfterToolCall
    <3>2. ledger = IF success THEN LedgerOf(r) \cup {tool} ELSE LedgerOf(r)
      BY DEF WithTool
    <3>3. ledger \in Ledgers
      BY <2>3, <3>2, LedgerType DEF Ledgers
    <3>4. StoresWritten(r, ledger)
      BY <2>1, <2>3, <3>1, <3>2 DEF StoresWritten
    <3> QED BY <2>3, <3>3, <3>4
  <2> QED BY <2>2, <2>3
<1>4. ASSUME NEW r \in Runs, Finalize(r)
      PROVE  StoresKept \/ \E q \in Identified, ledger \in Ledgers :
                              StoresWritten(q, ledger)
  <2>1. CASE Judged(r) /\ ~HasEvidence(r)
    <3>1. LedgerOf(r) = {} /\ {} \in Ledgers
      BY <2>1 DEF HasEvidence, LedgerOf, Ledgers
    <3>2. StoresWritten(r, {})
      BY <1>4, <2>1, <3>1 DEF Finalize, StoresWritten
    <3> QED BY <2>1, <3>1, <3>2 DEF Judged
  <2>2. CASE ~(Judged(r) /\ ~HasEvidence(r))
    BY <1>4, <2>2 DEF Finalize, StoresKept
  <2> QED BY <2>1, <2>2
<1>5. ASSUME NEW r \in Runs, AgentEnd(r)
      PROVE  StoresKept \/ r \in Identified
  BY <1>5 DEF AgentEnd, StoresKept
<1>6. CASE UNCHANGED vars
  BY <1>6 DEF vars, StoresKept
<1> QED BY <1>1, <1>2, <1>3, <1>4, <1>5, <1>6 DEF Next, RunStep

-----------------------------------------------------------------------------
(* Type correctness *)

TypeInv == TypeOK /\ FallbackInv

\* The stores are empty, and nothing has happened.
LEMMA InitTypeInv == Init => TypeInv
<1> SUFFICES ASSUME Init PROVE TypeInv
  OBVIOUS
<1>1. /\ DOMAIN runContext = {} /\ DOMAIN fallback = {} /\ older = {}
      /\ mode \in Modes /\ host \in Hosts /\ anonymous \subseteq Runs
  BY GateConstants DEF Init
<1>2. IsFiniteSet(DOMAIN fallback) /\ Cardinality(DOMAIN fallback) = 0
  BY <1>1, FS_EmptySet
<1>3. Ranked(DOMAIN fallback, older)
  <2>1. [s \in {} |-> 0] \in Ranks({}, older, 0)
    BY DEF Ranks
  <2> QED BY <1>1, <2>1 DEF Ranked
<1>4. MaxFallback \in Nat
  BY ResponseGateAssumption
<1>5. revisions \in [Runs -> [RevisionKeys -> 0..MaxAttempts]]
  BY GateConstants DEF Init
<1>6. /\ calls \in [Runs -> Nat] /\ \A r \in Runs : calls[r] <= MaxCalls[r]
  BY GateConstants DEF Init
<1>7. /\ phase \in [Runs -> Phases] /\ succeeded \in [Runs -> SUBSET Tools]
      /\ pending = {} /\ touched = {} /\ evicted = {} /\ proposed = {}
  BY DEF Init, Phases
<1>8. FallbackInv
  BY <1>2, <1>3, <1>4 DEF FallbackInv
<1> QED BY <1>1, <1>2, <1>4, <1>5, <1>6, <1>7, <1>8 DEF TypeInv, TypeOK

\* agent_end takes the ledger of its run out of both stores.
LEMMA EndEffect ==
    ASSUME NEW r \in Identified, AgentEnd(r)
    PROVE  /\ ForgetFallback(r)
           /\ DOMAIN runContext' = DOMAIN runContext \ {r}
           /\ \A s \in DOMAIN runContext' : runContext'[s] = runContext[s]
           /\ DOMAIN fallback' = DOMAIN fallback \ {r}
           /\ \A s \in DOMAIN fallback' : fallback'[s] = fallback[s]
           /\ older' \subseteq older
           /\ UNCHANGED <<setting, evicted, succeeded, touched, proposed>>
           /\ phase' = [phase EXCEPT ![r] = "ended"]
BY DEF AgentEnd, ForgetFallback, Among

\* The stores keep their types, and the map its limit.
LEMMA StoresType ==
    ASSUME TypeInv, [Next]_vars
    PROVE  /\ FallbackInv'
           /\ DOMAIN runContext' \subseteq Identified
           /\ \A r \in DOMAIN runContext' : runContext'[r] \in Ledgers
           /\ DOMAIN fallback' \subseteq Identified
           /\ \A r \in DOMAIN fallback' : fallback'[r] \in Ledgers
           /\ older' \subseteq Runs \X Runs
           /\ evicted' \subseteq Runs
<1> USE DEF TypeInv, TypeOK
<1>1. CASE StoresKept
  BY <1>1 DEF StoresKept, stores, FallbackInv
<1>2. ASSUME NEW r \in Identified, NEW ledger \in Ledgers, StoresWritten(r, ledger)
      PROVE  /\ FallbackInv'
             /\ DOMAIN runContext' \subseteq Identified
             /\ \A s \in DOMAIN runContext' : runContext'[s] \in Ledgers
             /\ DOMAIN fallback' \subseteq Identified
             /\ \A s \in DOMAIN fallback' : fallback'[s] \in Ledgers
             /\ older' \subseteq Runs \X Runs
             /\ evicted' \subseteq Runs
  <2>1. StoreRunEvidence(r, ledger)
    BY <1>2 DEF StoresWritten
  <2>2. FallbackInv'
    BY <2>1, StoreBounded
  <2>3. /\ \A s \in DOMAIN runContext' :
              \/ s = r /\ runContext'[s] = ledger
              \/ s \in DOMAIN runContext /\ runContext'[s] = runContext[s]
        /\ \A s \in DOMAIN fallback' :
              \/ s = r /\ fallback'[s] = ledger
              \/ s \in DOMAIN fallback /\ fallback'[s] = fallback[s]
        /\ evicted' \subseteq evicted \cup DOMAIN fallback \cup {r}
        /\ \A p \in older' : p \in older \/ \E s \in DOMAIN fallback : p = <<s, r>>
    BY <2>1, StoreEffect
  <2>4. Identified \subseteq Runs
    BY DEF Identified
  <2>5. older' \subseteq Runs \X Runs
    <3>1. ASSUME NEW s \in DOMAIN fallback PROVE <<s, r>> \in Runs \X Runs
      BY <2>4
    <3> QED BY <2>3, <3>1
  <2> QED BY <2>2, <2>3, <2>4, <2>5
<1>3. ASSUME NEW r \in Identified, AgentEnd(r)
      PROVE  /\ FallbackInv'
             /\ DOMAIN runContext' \subseteq Identified
             /\ \A s \in DOMAIN runContext' : runContext'[s] \in Ledgers
             /\ DOMAIN fallback' \subseteq Identified
             /\ \A s \in DOMAIN fallback' : fallback'[s] \in Ledgers
             /\ older' \subseteq Runs \X Runs
             /\ evicted' \subseteq Runs
  <2>1. FallbackInv'
    BY <1>3, EndEffect, ForgetBounded
  <2> QED BY <1>3, <2>1, EndEffect
<1> QED BY <1>1, <1>2, <1>3, StoresStep

\* The bookkeeping of the host and of the run keeps its types.
LEMMA RunsType ==
    ASSUME TypeOK, [Next]_vars
    PROVE  /\ UNCHANGED setting
           /\ phase' \in [Runs -> Phases]
           /\ pending' \subseteq Runs \X Tools
           /\ calls' \in [Runs -> Nat] /\ \A r \in Runs : calls'[r] <= MaxCalls[r]
           /\ revisions' \in [Runs -> [RevisionKeys -> 0..MaxAttempts]]
           /\ succeeded' \in [Runs -> SUBSET Tools]
           /\ touched' \subseteq Runs /\ proposed' \subseteq Runs
<1> USE DEF TypeOK, Phases
<1>1. ASSUME NEW r \in Runs, BeforeAgentRun(r)
      PROVE  /\ phase' \in [Runs -> Phases]
             /\ UNCHANGED <<setting, pending, calls, revisions, succeeded, touched,
                            proposed>>
  BY <1>1 DEF BeforeAgentRun
<1>2. ASSUME NEW r \in Runs, NEW tool \in Tools, NEW incident,
             BeforeToolCall(r, tool, incident)
      PROVE  /\ pending' \subseteq Runs \X Tools
             /\ calls' \in [Runs -> Nat] /\ \A s \in Runs : calls'[s] <= MaxCalls[s]
             /\ touched' \subseteq Runs /\ proposed' \subseteq Runs
             /\ UNCHANGED <<setting, phase, revisions, succeeded>>
  <2>1. /\ calls[r] < MaxCalls[r] /\ calls[r] \in Nat /\ MaxCalls[r] \in Nat
        /\ calls' = [calls EXCEPT ![r] = calls[r] + 1]
    BY <1>2, GateConstants DEF BeforeToolCall
  <2>2. calls' \in [Runs -> Nat] /\ \A s \in Runs : calls'[s] <= MaxCalls[s]
    BY <2>1
  <2>3. pending' \subseteq pending \cup {<<r, tool>>}
    BY <1>2 DEF BeforeToolCall
  <2>4. touched' \subseteq touched \cup {r} /\ proposed' \subseteq proposed \cup {r}
    BY <1>2 DEF BeforeToolCall
  <2>5. UNCHANGED <<setting, phase, revisions, succeeded>>
    BY <1>2 DEF BeforeToolCall
  <2>6. pending' \subseteq Runs \X Tools
    BY <2>3
  <2> QED BY <2>2, <2>4, <2>5, <2>6
<1>3. ASSUME NEW r \in Runs, NEW tool \in Tools, NEW success \in BOOLEAN,
             AfterToolCall(r, tool, success)
      PROVE  /\ pending' \subseteq Runs \X Tools
             /\ succeeded' \in [Runs -> SUBSET Tools]
             /\ UNCHANGED <<setting, phase, calls, revisions, touched, proposed>>
  BY <1>3 DEF AfterToolCall
<1>4. ASSUME NEW r \in Runs, Finalize(r)
      PROVE  /\ phase' \in [Runs -> Phases]
             /\ revisions' \in [Runs -> [RevisionKeys -> 0..MaxAttempts]]
             /\ UNCHANGED <<setting, pending, calls, succeeded, touched, proposed>>
  <2> DEFINE missing == Missing(LedgerOf(r))
  <2>1. CASE Judged(r) /\ missing # {} /\ MayRevise(r, missing)
    <3>1. missing \in RevisionKeys
      BY DEF Missing, RevisionKeys
    <3> HIDE DEF missing
    <3>2. revisions[r] \in [RevisionKeys -> 0..MaxAttempts]
      OBVIOUS
    <3>3. revisions[r][missing] + 1 \in 0..MaxAttempts
      BY <2>1, <3>1, <3>2, GateConstants DEF MayRevise
    <3>4. /\ revisions' = [revisions EXCEPT ![r][missing] = revisions[r][missing] + 1]
          /\ phase' = [phase EXCEPT ![r] = "idle"]
      BY <1>4, <2>1 DEF Finalize, Revised, missing
    <3>5. revisions' \in [Runs -> [RevisionKeys -> 0..MaxAttempts]]
      BY <3>1, <3>2, <3>3, <3>4
    <3> QED BY <1>4, <3>4, <3>5 DEF Finalize
  <2>2. CASE ~(Judged(r) /\ missing # {} /\ MayRevise(r, missing))
    BY <1>4, <2>2 DEF Finalize
  <2> QED BY <2>1, <2>2
<1>5. ASSUME NEW r \in Runs, AgentEnd(r)
      PROVE  /\ phase' \in [Runs -> Phases]
             /\ UNCHANGED <<setting, pending, calls, revisions, succeeded, touched,
                            proposed>>
  BY <1>5 DEF AgentEnd
<1>6. CASE UNCHANGED vars
  BY <1>6 DEF vars
<1> QED BY <1>1, <1>2, <1>3, <1>4, <1>5, <1>6 DEF Next, RunStep

\* Every step keeps the types.
LEMMA TypeInvStep == TypeInv /\ [Next]_vars => TypeInv'
<1> SUFFICES ASSUME TypeInv, [Next]_vars PROVE TypeInv'
  OBVIOUS
<1>1. TypeOK
  BY DEF TypeInv
<1>2. Identified' = Identified
  BY <1>1, RunsType DEF Identified, setting
<1> QED BY <1>1, <1>2, StoresType, RunsType
        DEF TypeInv, TypeOK, setting, FallbackInv

\* Type correctness; in particular fallbackRunEvidence never holds more than
\* its limit, whatever the host rejects and in whatever order runs write.
THEOREM GateTypeCorrect == Spec => []TypeOK
<1>1. Spec => []TypeInv
  BY InitTypeInv, TypeInvStep, PTL DEF Spec
<1>2. TypeInv => TypeOK
  BY DEF TypeInv
<1> QED BY <1>1, <1>2, PTL

-----------------------------------------------------------------------------
(* Ledgers and proposals *)

\* What has succeeded stays so.
LEMMA SucceededGrows ==
    ASSUME TypeOK, [Next]_vars, NEW r \in Runs
    PROVE  succeeded[r] \subseteq succeeded'[r]
BY StoresStep, EndEffect DEF StoresKept, StoresWritten, Credited, TypeOK

\* A truthful ledger is read as such.
LEMMA ReadTruthful ==
    ASSUME LedgersAreTruthful, NEW r
    PROVE  LedgerOf(r) \subseteq succeeded[r]
BY DEF LedgersAreTruthful, LedgerOf

\* A write credits its run with what has succeeded in it.
LEMMA TruthStep ==
    ASSUME TypeInv, LedgersAreTruthful, [Next]_vars
    PROVE  LedgersAreTruthful'
<1> USE DEF TypeInv
<1>0. \A s \in Runs : succeeded[s] \subseteq succeeded'[s]
  BY SucceededGrows
<1>1. CASE StoresKept
  BY <1>0, <1>1 DEF StoresKept, stores, LedgersAreTruthful, TypeOK, Identified
<1>2. ASSUME NEW r \in Identified, NEW ledger \in Ledgers, StoresWritten(r, ledger)
      PROVE  LedgersAreTruthful'
  <2>1. ledger \subseteq succeeded'[r]
    <3>1. LedgerOf(r) \subseteq succeeded[r] /\ r \in Runs
      BY ReadTruthful DEF Identified
    <3> QED BY <1>2, <3>1 DEF StoresWritten, Credited, TypeOK
  <2>2. /\ \A s \in DOMAIN runContext' :
              \/ s = r /\ runContext'[s] = ledger
              \/ s \in DOMAIN runContext /\ runContext'[s] = runContext[s]
        /\ \A s \in DOMAIN fallback' :
              \/ s = r /\ fallback'[s] = ledger
              \/ s \in DOMAIN fallback /\ fallback'[s] = fallback[s]
    BY <1>2, StoreEffect DEF StoresWritten
  <2> QED BY <1>0, <2>1, <2>2 DEF LedgersAreTruthful, TypeOK, Identified
<1>3. ASSUME NEW r \in Identified, AgentEnd(r) PROVE LedgersAreTruthful'
  BY <1>3, EndEffect DEF LedgersAreTruthful
<1> QED BY <1>1, <1>2, <1>3, StoresStep

\* The gate lets a proposal pass on the ledger it reads.
LEMMA ProposalStep ==
    ASSUME TypeInv, LedgersAreTruthful, ProposalsAreBacked, [Next]_vars
    PROVE  ProposalsAreBacked'
<1> USE DEF TypeInv
<1>0. /\ UNCHANGED setting
      /\ \A s \in Runs : succeeded[s] \subseteq succeeded'[s]
      /\ proposed \subseteq Runs
  BY SucceededGrows, RunsType DEF TypeOK
<1>1. CASE proposed' = proposed
  BY <1>0, <1>1 DEF ProposalsAreBacked, setting
<1>2. ASSUME NEW r \in Runs, NEW tool \in Tools, NEW incident,
             BeforeToolCall(r, tool, incident)
      PROVE  ProposalsAreBacked'
  <2>1. \/ proposed' = proposed
        \/ proposed' = proposed \cup {r} /\ ProposalPasses(r)
    BY <1>2 DEF BeforeToolCall
  <2>2. CASE proposed' = proposed \cup {r} /\ ProposalPasses(r)
    <3>1. mode = "disabled" \/ r \in anonymous \/ RequiredTools \subseteq succeeded'[r]
      BY <1>0, <2>2, ReadTruthful DEF ProposalPasses, Missing
    <3> QED BY <1>0, <2>2, <3>1 DEF ProposalsAreBacked, setting
  <2> QED BY <1>1, <2>1, <2>2
<1>3. ASSUME NEW r \in Runs, BeforeAgentRun(r) \/ Finalize(r) \/ AgentEnd(r)
      PROVE  proposed' = proposed
  BY <1>3 DEF BeforeAgentRun, Finalize, AgentEnd
<1>4. ASSUME NEW r \in Runs, NEW tool \in Tools, NEW success,
             AfterToolCall(r, tool, success)
      PROVE  proposed' = proposed
  BY <1>4 DEF AfterToolCall
<1>5. UNCHANGED vars => proposed' = proposed
  BY DEF vars
<1> QED BY <1>1, <1>2, <1>3, <1>4, <1>5 DEF Next, RunStep

-----------------------------------------------------------------------------
(* Evidence is kept while a run is in progress *)

InProgress(r) == phase[r] \in {"idle", "thinking"}

\* How runs come to where they are.
LEMMA PhaseStep ==
    ASSUME TypeOK, [Next]_vars, NEW r \in Runs
    PROVE  /\ InProgress(r)' => InProgress(r)
           /\ phase'[r] = "concluded" => phase[r] = "concluded" \/ Finalize(r)
           /\ r \in touched' \ touched => /\ phase'[r] = "thinking"
                                          /\ StoreRunEvidence(r, LedgerOf(r))
           /\ revisions' = revisions \/ \E q \in Runs : Finalize(q)
<1> USE DEF TypeOK, InProgress
<1>1. ASSUME NEW q \in Runs, BeforeAgentRun(q)
      PROVE  /\ InProgress(r)' => InProgress(r)
             /\ phase'[r] = "concluded" => phase[r] = "concluded"
             /\ UNCHANGED <<touched, revisions>>
  BY <1>1 DEF BeforeAgentRun
<1>2. ASSUME NEW q \in Runs, NEW tool \in Tools, NEW incident,
             BeforeToolCall(q, tool, incident)
      PROVE  /\ r \in touched' \ touched => /\ phase'[r] = "thinking"
                                            /\ StoreRunEvidence(r, LedgerOf(r))
             /\ UNCHANGED <<phase, revisions>>
  BY <1>2 DEF BeforeToolCall, WithTool
<1>3. ASSUME NEW q \in Runs, NEW tool \in Tools, NEW success \in BOOLEAN,
             AfterToolCall(q, tool, success)
      PROVE  UNCHANGED <<phase, touched, revisions>>
  BY <1>3 DEF AfterToolCall
<1>4. ASSUME NEW q \in Runs, Finalize(q)
      PROVE  /\ InProgress(r)' => InProgress(r)
             /\ phase'[r] = "concluded" => phase[r] = "concluded" \/ q = r
             /\ UNCHANGED touched
  BY <1>4 DEF Finalize
<1>5. ASSUME NEW q \in Runs, AgentEnd(q)
      PROVE  /\ InProgress(r)' => InProgress(r)
             /\ phase'[r] = "concluded" => phase[r] = "concluded"
             /\ UNCHANGED <<touched, revisions>>
  BY <1>5 DEF AgentEnd
<1>6. CASE UNCHANGED vars
  BY <1>6 DEF vars
<1> QED BY <1>1, <1>2, <1>3, <1>4, <1>5, <1>6 DEF Next, RunStep

\* Evicted runs stay known.
LEMMA EvictedGrows ==
    ASSUME TypeOK, [Next]_vars
    PROVE  evicted \subseteq evicted'
BY StoresStep, StoreEffect, EndEffect DEF StoresKept, StoresWritten, stores

\* A run that has used a Guardian tool has a ledger, until it is evicted.
UsersHaveEvidence ==
    \A r \in Identified : InProgress(r) /\ r \in touched \ evicted => HasEvidence(r)

\* A host that answers alike goes on using one store.
LEMMA OneStoreStep ==
    ASSUME TypeOK, OneStore, [Next]_vars
    PROVE  OneStore'
<1>0. host' = host
  BY RunsType DEF setting
<1>1. CASE StoresKept
  BY <1>0, <1>1 DEF StoresKept, stores, OneStore
<1>2. ASSUME NEW r \in Identified, NEW ledger \in Ledgers, StoresWritten(r, ledger)
      PROVE  OneStore'
  BY <1>0, <1>2, StoreKeepsOneStore DEF StoresWritten
<1>3. ASSUME NEW r \in Identified, AgentEnd(r) PROVE OneStore'
  BY <1>0, <1>3, EndEffect DEF OneStore
<1> QED BY <1>1, <1>2, <1>3, StoresStep

\* Users keep their ledgers.
LEMMA UsersStep ==
    ASSUME TypeOK, UsersHaveEvidence, [Next]_vars
    PROVE  UsersHaveEvidence'
<1>0. Identified' = Identified /\ Identified \subseteq Runs
  BY RunsType DEF Identified, setting
<1> SUFFICES ASSUME NEW r \in Identified, InProgress(r)', r \in touched',
                    r \notin evicted'
             PROVE  HasEvidence(r)'
  BY <1>0 DEF UsersHaveEvidence
<1>1. r \in Runs /\ InProgress(r) /\ r \notin evicted
  BY <1>0, PhaseStep, EvictedGrows
<1>2. CASE r \notin touched
  <2>1. StoreRunEvidence(r, LedgerOf(r))
    BY <1>1, <1>2, PhaseStep
  <2> QED BY <2>1, StoreKeepsEvidence
<1>3. CASE r \in touched
  <2>1. HasEvidence(r)
    BY <1>1, <1>3 DEF UsersHaveEvidence
  <2>2. CASE StoresKept
    BY <2>1, <2>2 DEF StoresKept, stores, HasEvidence
  <2>3. ASSUME NEW q \in Identified, NEW ledger \in Ledgers, StoresWritten(q, ledger)
        PROVE  HasEvidence(r)'
    BY <2>1, <2>3, StoreKeepsEvidence DEF StoresWritten
  <2>4. ASSUME NEW q \in Identified, AgentEnd(q) PROVE HasEvidence(r)'
    <3>1. q # r
      BY <2>4, EndEffect, <1>1 DEF InProgress, TypeOK
    <3> QED BY <2>1, <2>4, <3>1, EndEffect DEF HasEvidence
  <2> QED BY <2>2, <2>3, <2>4, StoresStep
<1> QED BY <1>2, <1>3

\* A run in progress loses nothing, with a host that answers alike.
LEMMA EvidenceStep ==
    ASSUME TypeOK, OneStore, EvidenceIsKept, [Next]_vars
    PROVE  EvidenceIsKept'
<1>0. /\ Identified' = Identified /\ Identified \subseteq Runs
      /\ mode' = mode /\ host' = host
  BY RunsType DEF Identified, setting
<1> SUFFICES ASSUME NEW r \in Identified, r \notin evicted', InProgress(r)',
                    mode # "disabled", host # "varies"
             PROVE  succeeded'[r] \cap GuardianTools = LedgerOf(r)'
  BY <1>0 DEF EvidenceIsKept, InProgress
<1>1. r \in Runs /\ InProgress(r) /\ r \notin evicted
  BY <1>0, PhaseStep, EvictedGrows
<1>2. succeeded[r] \cap GuardianTools = LedgerOf(r)
  BY <1>1 DEF EvidenceIsKept, InProgress
<1>3. CASE StoresKept
  <2>1. LedgerOf(r)' = LedgerOf(r)
    BY <1>3 DEF StoresKept, stores, LedgerOf
  <2>2. CASE succeeded' = succeeded
    BY <1>2, <2>1, <2>2
  <2>3. ASSUME NEW q \in Runs, NEW tool \in Tools, succeeded' = Credited(q, tool),
               q \in anonymous \/ tool \notin GuardianTools
        PROVE  succeeded'[r] \cap GuardianTools = succeeded[r] \cap GuardianTools
    BY <1>1, <2>3 DEF Credited, TypeOK, Identified
  <2> QED BY <1>2, <1>3, <2>1, <2>2, <2>3 DEF StoresKept
<1>4. ASSUME NEW q \in Identified, NEW ledger \in Ledgers, StoresWritten(q, ledger)
      PROVE  succeeded'[r] \cap GuardianTools = LedgerOf(r)'
  <2>1. LedgerOf(r)' = IF r = q THEN ledger ELSE LedgerOf(r)
    <3>1. host \in {"accepts", "rejects"}
      BY DEF TypeOK, Hosts
    <3>2. StoreRunEvidence(q, ledger)
      BY <1>4 DEF StoresWritten
    <3> QED BY <3>1, <3>2, StoreReadBack
  <2>2. CASE ledger = LedgerOf(q) /\ succeeded' = succeeded
    BY <1>2, <2>1, <2>2
  <2>3. ASSUME NEW tool \in GuardianTools, ledger = LedgerOf(q) \cup {tool},
               succeeded' = Credited(q, tool)
        PROVE  succeeded'[r] \cap GuardianTools = LedgerOf(r)'
    <3>1. CASE r = q
      <4>1. succeeded'[r] = succeeded[r] \cup {tool}
        BY <1>1, <2>3, <3>1 DEF Credited, TypeOK
      <4> QED BY <1>2, <2>1, <2>3, <3>1, <4>1
    <3>2. CASE r # q
      <4>1. succeeded'[r] = succeeded[r]
        BY <1>1, <2>3, <3>2 DEF Credited, TypeOK
      <4> QED BY <1>2, <2>1, <3>2, <4>1
    <3> QED BY <3>1, <3>2
  <2> QED BY <1>4, <2>2, <2>3 DEF StoresWritten
<1>5. ASSUME NEW q \in Identified, AgentEnd(q)
      PROVE  succeeded'[r] \cap GuardianTools = LedgerOf(r)'
  <2>1. q # r
    BY <1>1, <1>5, EndEffect DEF InProgress, TypeOK
  <2>2. LedgerOf(r)' = LedgerOf(r)
    BY <1>5, <2>1, EndEffect DEF LedgerOf
  <2> QED BY <1>2, <1>5, <2>2, EndEffect
<1> QED BY <1>3, <1>4, <1>5, StoresStep

-----------------------------------------------------------------------------
(* Answers without evidence *)

\* The host's count of revisions does not go back.
LEMMA RevisionsGrow ==
    ASSUME TypeOK, [Next]_vars, NEW r \in Runs, NEW key \in RevisionKeys,
           revisions[r][key] > 0
    PROVE  revisions'[r][key] > 0
<1>1. CASE revisions' = revisions
  BY <1>1
<1>2. ASSUME NEW q \in Runs, Finalize(q), revisions' # revisions
      PROVE  revisions'[r][key] > 0
  <2> DEFINE missing == Missing(LedgerOf(q))
  <2>1. revisions' = [revisions EXCEPT ![q][missing] = revisions[q][missing] + 1]
    BY <1>2 DEF Finalize, Revised
  <2>2. missing \in RevisionKeys
    BY DEF Missing, RevisionKeys
  <2> HIDE DEF missing
  <2>3. revisions[r] \in [RevisionKeys -> 0..MaxAttempts]
    BY DEF TypeOK
  <2>4. /\ revisions[r][key] \in Nat /\ revisions[q] \in [RevisionKeys -> 0..MaxAttempts]
        /\ revisions \in [Runs -> [RevisionKeys -> 0..MaxAttempts]]
    BY <2>3 DEF TypeOK
  <2>5. revisions'[r][key] \in {revisions[r][key], revisions[r][key] + 1}
    BY <2>1, <2>2, <2>4
  <2> QED BY <2>4, <2>5
<1> QED BY <1>1, <1>2, PhaseStep

\* An answer is accepted unjudged only where the property says nothing of it.
LEMMA ChallengeStep ==
    ASSUME TypeInv, LedgersAreTruthful, UsersHaveEvidence,
           UnsupportedAnswersAreChallenged, [Next]_vars
    PROVE  UnsupportedAnswersAreChallenged'
<1> USE DEF TypeInv
<1>0. /\ Identified' = Identified /\ Identified \subseteq Runs /\ mode' = mode
  BY RunsType DEF Identified, setting
<1> SUFFICES ASSUME NEW r \in Identified, phase'[r] = "concluded",
                    ~(RequiredTools \subseteq succeeded'[r]),
                    Enforced \/ (/\ mode = "on_guardian_tool"
                                 /\ r \in touched' /\ r \notin evicted')
             PROVE  \E key \in RevisionKeys : revisions'[r][key] > 0
  BY <1>0 DEF UnsupportedAnswersAreChallenged, Enforced
<1>1. /\ r \in Runs /\ ~(RequiredTools \subseteq succeeded[r])
      /\ r \in touched' => r \in touched
      /\ r \notin evicted' => r \notin evicted
  BY <1>0, PhaseStep, SucceededGrows, EvictedGrows
<1>2. CASE phase[r] = "concluded"
  <2>1. PICK key \in RevisionKeys : revisions[r][key] > 0
    BY <1>1, <1>2 DEF UnsupportedAnswersAreChallenged
  <2> QED BY <1>1, <2>1, RevisionsGrow
<1>3. CASE phase[r] # "concluded"
  <2> DEFINE missing == Missing(LedgerOf(r))
  <2>1. Finalize(r) /\ phase[r] = "thinking"
    BY <1>1, <1>3, PhaseStep DEF Finalize
  <2>2. missing # {} /\ missing \in RevisionKeys
    BY <1>1, ReadTruthful DEF Missing, RevisionKeys
  <2>3. Judged(r)
    BY <1>1, <2>1 DEF Judged, UsersHaveEvidence, InProgress, Enforced
  <2>4. ~(Judged(r) /\ missing # {} /\ MayRevise(r, missing))
    BY <1>1, <2>1 DEF Finalize, TypeOK
  <2> HIDE DEF missing
  <2>5. revisions' = revisions
    BY <2>1, <2>4 DEF Finalize, missing
  <2>6. revisions[r][missing] \in Nat /\ ~(revisions[r][missing] < MaxAttempts)
    BY <1>1, <2>2, <2>3, <2>4 DEF MayRevise, TypeOK
  <2>7. revisions[r][missing] > 0
    BY <2>6, GateConstants
  <2> QED BY <2>2, <2>5, <2>7
<1> QED BY <1>2, <1>3

-----------------------------------------------------------------------------
(* The invariant and what follows *)

GateInv ==
    /\ TypeInv /\ OneStore
    /\ LedgersAreTruthful /\ ProposalsAreBacked
    /\ EvidenceIsKept /\ UsersHaveEvidence /\ UnsupportedAnswersAreChallenged

\* The inductive invariant: one store with a steady host, truthful ledgers that
\* miss nothing, and a ledger for every run that used a Guardian tool.
THEOREM GateCorrect == Spec => []GateInv
<1>1. Init => GateInv
  <2> SUFFICES ASSUME Init PROVE GateInv
    OBVIOUS
  <2>1. /\ DOMAIN runContext = {} /\ DOMAIN fallback = {} /\ touched = {}
        /\ proposed = {} /\ \A r \in Runs : succeeded[r] = {} /\ phase[r] = "idle"
    BY DEF Init
  <2>2. OneStore /\ LedgersAreTruthful /\ ProposalsAreBacked
    BY <2>1 DEF OneStore, LedgersAreTruthful, ProposalsAreBacked
  <2>3. EvidenceIsKept
    BY <2>1 DEF EvidenceIsKept, LedgerOf, Identified
  <2>4. UsersHaveEvidence /\ UnsupportedAnswersAreChallenged
    BY <2>1 DEF UsersHaveEvidence, UnsupportedAnswersAreChallenged, Identified
  <2> QED BY <2>2, <2>3, <2>4, InitTypeInv DEF GateInv
<1>2. GateInv /\ [Next]_vars => GateInv'
  <2> SUFFICES ASSUME GateInv, [Next]_vars PROVE GateInv'
    OBVIOUS
  <2>1. TypeInv /\ TypeOK
    BY DEF GateInv, TypeInv
  <2>2. TypeInv'
    BY <2>1, TypeInvStep
  <2>3. OneStore' /\ LedgersAreTruthful' /\ ProposalsAreBacked'
    BY <2>1, OneStoreStep, TruthStep, ProposalStep DEF GateInv
  <2>4. EvidenceIsKept' /\ UsersHaveEvidence' /\ UnsupportedAnswersAreChallenged'
    BY <2>1, EvidenceStep, UsersStep, ChallengeStep DEF GateInv
  <2> QED BY <2>2, <2>3, <2>4 DEF GateInv
<1> QED BY <1>1, <1>2, PTL DEF Spec

\* No store credits a run with a tool that did not succeed in it
\* (recordGuardianToolObservation, storeRunEvidence).
THEOREM LedgersAlwaysTruthful == Spec => []LedgersAreTruthful
<1>1. GateInv => LedgersAreTruthful
  BY DEF GateInv
<1> QED BY <1>1, GateCorrect, PTL

\* An agent's proposal passes only with its evidence
\* (buildProposalToolGateDecision).
THEOREM ProposalsAlwaysBacked == Spec => []ProposalsAreBacked
<1>1. GateInv => ProposalsAreBacked
  BY DEF GateInv
<1> QED BY <1>1, GateCorrect, PTL

\* Evidence once obtained is not lost while the run goes on
\* (activateGuardianRunEvidence, storeRunEvidence).
THEOREM EvidenceAlwaysKept == Spec => []EvidenceIsKept
<1>1. GateInv => EvidenceIsKept
  BY DEF GateInv
<1> QED BY <1>1, GateCorrect, PTL

\* An answer without its evidence is challenged before it is accepted
\* (before_agent_finalize).
THEOREM UnsupportedAnswersAlwaysChallenged ==
    Spec => []UnsupportedAnswersAreChallenged
<1>1. GateInv => UnsupportedAnswersAreChallenged
  BY DEF GateInv
<1> QED BY <1>1, GateCorrect, PTL
=============================================================================
