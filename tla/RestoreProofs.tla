----------------------------- MODULE RestoreProofs -----------------------------
(***************************************************************************)
(* The restore of a boot, for every value of the constants: what each      *)
(* saved tab comes back as (TabRestorePlan) and the sweep of kiro-cli's    *)
(* locks that goes before it (KiroLocks).  PlanInv and LockInv are         *)
(* inductive, and every property of the two modules follows.               *)
(***************************************************************************)
EXTENDS TabRestorePlan, KiroLocks, SequenceTheorems, WellFoundedInduction, TLAPS

-----------------------------------------------------------------------------
(* Who may resume a session.                                               *)

LEMMA LeastOf ==
  ASSUME NEW S \in SUBSET Nat, S # {}
  PROVE  Least(S) \in S /\ \A j \in S : Least(S) <= j
  <1>1. PICK i \in S : \A j \in S : ~ (<<j, i>> \in OpToRel(<, Nat))
    BY WFMin, NatLessThanWellFounded
  <1>2. \A j \in S : i <= j
    <2>1. SUFFICES ASSUME NEW j \in S PROVE i <= j
      OBVIOUS
    <2>2. ~ (j < i)
      BY <1>1 DEF OpToRel
    <2>3. QED BY <2>2
  <1>3. QED BY <1>2 DEF Least

LEMMA GreatestOf ==
  ASSUME NEW n \in Nat, NEW S \in SUBSET (1 .. n), S # {}
  PROVE  Greatest(S) \in S /\ \A j \in S : Greatest(S) >= j
  <1> DEFINE Below == {n - i : i \in S}
  <1>1. Below \in SUBSET Nat /\ Below # {}
    <2>1. \A i \in S : n - i \in Nat
      OBVIOUS
    <2>2. PICK i \in S : TRUE
      OBVIOUS
    <2>3. n - i \in Below
      OBVIOUS
    <2>4. QED BY <2>1, <2>3
  <1>2. PICK i \in S : Least(Below) = n - i
    BY <1>1, LeastOf
  <1>3. \A j \in S : i >= j
    <2>1. SUFFICES ASSUME NEW j \in S PROVE i >= j
      OBVIOUS
    <2>2. n - i <= n - j
      BY <1>1, <1>2, LeastOf
    <2>3. QED BY <2>2
  <1>4. QED BY <1>3 DEF Greatest

\* resumeOwners: the owner of a session is an entry that names it, the last of those
\* whose address says so, or the earliest when no address does; a session that no entry
\* names has no owner.
THEOREM OwnerIsTheBookmarked ==
  ASSUME NEW es \in Seq(Entry), NEW s \in Resumable
  PROVE  LET o == ResumeOwners(es)[s]
         IN  /\ o = 0 <=> Naming(es, s) = {}
             /\ Naming(es, s) # {} => o \in Naming(es, s)
             /\ Bookmarks(es, s) # {} =>
                   o \in Bookmarks(es, s) /\ \A j \in Bookmarks(es, s) : j <= o
             /\ Bookmarks(es, s) = {} => \A j \in Naming(es, s) : o <= j
  <1> DEFINE N == Naming(es, s)
             B == Bookmarks(es, s)
             o == ResumeOwners(es)[s]
  <1>1. Len(es) \in Nat
    BY LenProperties
  <1>2. N \in SUBSET (1 .. Len(es)) /\ B \subseteq N
    BY DEF Naming, Bookmarks, Indices
  <1>3. o = IF B # {} THEN Greatest(B) ELSE IF N # {} THEN Least(N) ELSE 0
    BY DEF ResumeOwners
  <1> HIDE DEF N, B, o
  <1>4. N # {} => Least(N) \in N /\ \A j \in N : Least(N) <= j
    BY <1>1, <1>2, LeastOf
  <1>5. B # {} => Greatest(B) \in B /\ \A j \in B : j <= Greatest(B)
    BY <1>1, <1>2, GreatestOf
  <1>6. N # {} => o \in N
    BY <1>2, <1>3, <1>4, <1>5
  <1>7. o = 0 <=> N = {}
    <2>1. \A i \in N : i # 0
      BY <1>1, <1>2
    <2>2. N = {} => B = {}
      BY <1>2
    <2>3. QED BY <1>3, <1>6, <2>1, <2>2
  <1>8. QED BY <1>3, <1>4, <1>5, <1>6, <1>7 DEF N, B, o

LEMMA OwnersType ==
  ASSUME NEW es \in Seq(Entry), Len(es) <= MaxTabs
  PROVE  ResumeOwners(es) \in [Resumable -> 0 .. MaxTabs]
  <1>1. Len(es) \in Nat
    BY LenProperties
  <1>2. ASSUME NEW s \in Resumable PROVE ResumeOwners(es)[s] \in 0 .. MaxTabs
    <2>1. Naming(es, s) \subseteq 0 .. MaxTabs
      BY <1>1, PlanAssumption DEF Naming, Indices
    <2>2. QED BY <2>1, OwnerIsTheBookmarked, PlanAssumption
  <1>3. QED BY <1>2 DEF ResumeOwners

-----------------------------------------------------------------------------
(* Sequences.                                                              *)

\* A function on the first n numbers is a sequence of length n.
LEMMA FunctionIsSeq ==
  ASSUME NEW S, NEW n \in Nat, NEW f \in [1 .. n -> S]
  PROVE  f \in Seq(S) /\ Len(f) = n /\ Indices(f) = 1 .. n
  <1>1. f \in Seq(S)
    BY SeqDef
  <1>2. Len(f) \in Nat /\ 1 .. Len(f) = 1 .. n
    BY <1>1, LenProperties
  <1>3. QED BY <1>1, <1>2 DEF Indices

\* A sequence without its k-th element.
Without(es, k) == SubSeq(es, 1, k - 1) \o SubSeq(es, k + 1, Len(es))

LEMMA WithoutOne ==
  ASSUME NEW S, NEW es \in Seq(S), NEW k \in 1 .. Len(es)
  PROVE  /\ Without(es, k) \in Seq(S)
         /\ Len(Without(es, k)) = Len(es) - 1
         /\ \A i \in 1 .. Len(es) - 1 :
               Without(es, k)[i] = es[IF i < k THEN i ELSE i + 1]
  <1> DEFINE before  == SubSeq(es, 1, k - 1)
             after == SubSeq(es, k + 1, Len(es))
  <1>1. Len(es) \in Nat /\ \A i \in 1 .. Len(es) : es[i] \in S
    BY LenProperties, ElementOfSeq
  <1>2. /\ before \in Seq(S) /\ Len(before) = k - 1
        /\ \A i \in 1 .. k - 1 : before[i] = es[i]
    <2>1. \A i \in 1 .. k - 1 : es[i] \in S
      BY <1>1
    <2> HIDE DEF before
    <2>2. /\ before \in Seq(S)
          /\ Len(before) = IF 1 <= k - 1 THEN (k - 1) - 1 + 1 ELSE 0
          /\ \A i \in 1 .. (k - 1) - 1 + 1 : before[i] = es[1 + i - 1]
      BY <1>1, <2>1, SubSeqProperties DEF before
    <2>3. QED BY <1>1, <2>2
  <1>3. /\ after \in Seq(S) /\ Len(after) = Len(es) - k
        /\ \A i \in 1 .. Len(es) - k : after[i] = es[k + i]
    <2>1. \A i \in k + 1 .. Len(es) : es[i] \in S
      BY <1>1
    <2> HIDE DEF after
    <2>2. /\ after \in Seq(S)
          /\ Len(after) = IF k + 1 <= Len(es) THEN Len(es) - (k + 1) + 1 ELSE 0
          /\ \A i \in 1 .. Len(es) - (k + 1) + 1 : after[i] = es[(k + 1) + i - 1]
      BY <1>1, <2>1, SubSeqProperties DEF after
    <2>3. QED BY <1>1, <2>2
  <1> HIDE DEF before, after
  <1>4. /\ before \o after \in Seq(S)
        /\ Len(before \o after) = Len(before) + Len(after)
        /\ \A i \in 1 .. Len(before) + Len(after) :
              (before \o after)[i] =
                 IF i <= Len(before) THEN before[i] ELSE after[i - Len(before)]
    BY <1>2, <1>3, ConcatProperties
  <1>5. ASSUME NEW i \in 1 .. Len(es) - 1
        PROVE  (before \o after)[i] = es[IF i < k THEN i ELSE i + 1]
    <2>1. CASE i < k
      BY <1>1, <1>2, <1>3, <1>4, <2>1
    <2>2. CASE ~ (i < k)
      <3>1. (before \o after)[i] = after[i - (k - 1)]
        BY <1>1, <1>2, <1>3, <1>4, <2>2
      <3>2. after[i - (k - 1)] = es[k + (i - (k - 1))]
        <4>1. i - (k - 1) \in 1 .. Len(es) - k
          BY <1>1, <2>2
        <4>2. QED BY <1>3, <4>1
      <3>3. k + (i - (k - 1)) = i + 1
        BY <1>1
      <3>4. QED BY <2>2, <3>1, <3>2, <3>3
    <2>3. QED BY <2>1, <2>2
  <1>6. Len(before \o after) = Len(es) - 1
    BY <1>1, <1>2, <1>3, <1>4
  <1>7. QED BY <1>4, <1>5, <1>6 DEF Without, before, after

-----------------------------------------------------------------------------
(* The invariant.                                                          *)

\* Two tabs, or two entries, have different addresses.
Apart(es) ==
    \A i, j \in Indices(es) :
        i # j /\ es[i].alias # Address => es[i].alias # es[j].alias

\* What is empty when.
Shape ==
    /\ phase = "live" => set = <<>> /\ next = 1
    /\ phase # "live" => tabs = <<>>
    /\ phase \in {"live", "adopt"} => restored = <<>>
    /\ next <= Len(set) + 1
    /\ phase = "restored" => next = Len(set) + 1

Addresses == Apart(tabs) /\ Apart(set)

\* persist: an entry without a session has no address that names one.
SavedPairing ==
    \A i \in Indices(set) : set[i].resume = None => set[i].alias \notin Resumable

\* The plan reads the owners of the set it walks.
Claimed == phase \in {"plan", "restored"} => owner = ResumeOwners(set)

\* A restored tab comes from an entry that is planned: one without a session, at its
\* address; a fresh chat, at a new one; or the owner of a session, at that session.
CameBack(b) ==
    /\ b.from \in 1 .. next - 1
    /\ LET e == set[b.from]
       IN  \/ e.resume = None /\ b.resumes = None /\ b.alias = e.alias
           \/ b.resumes = None /\ b.alias = Address
           \/ /\ b.resumes \in Resumable
              /\ b.resumes = e.resume /\ b.alias = e.resume
              /\ owner[e.resume] = b.from

\* No entry comes back twice.
PlanTrace ==
    /\ Len(restored) < next
    /\ \A k \in Indices(restored) : CameBack(restored[k])
    /\ \A j, k \in Indices(restored) : j < k => restored[j].from < restored[k].from

\* Each owner that is planned and whose record is its own came back as its session.
OwnersPlanned ==
    phase \in {"plan", "restored"} =>
        \A i \in 1 .. next - 1 :
            LET s == set[i].resume
            IN  s \in Intact /\ owner[s] = i =>
                  \E k \in Indices(restored) :
                      restored[k].resumes = s /\ restored[k].alias = s

PlanInv ==
    /\ TypeOK /\ Shape /\ Addresses /\ SavedPairing /\ Claimed
    /\ PlanTrace /\ OwnersPlanned

\* The elements of the three sequences.
LEMMA Elements ==
  ASSUME TypeOK
  PROVE  /\ Len(set) \in Nat /\ Len(tabs) \in Nat /\ Len(restored) \in Nat
         /\ \A i \in Indices(set) : set[i] \in Entry
         /\ \A i \in Indices(tabs) : tabs[i] \in Live
         /\ \A i \in Indices(restored) : restored[i] \in Back
  <1>1. Len(set) \in Nat /\ \A i \in 1 .. Len(set) : set[i] \in Entry
    BY LenProperties, ElementOfSeq DEF TypeOK
  <1>2. Len(tabs) \in Nat /\ \A i \in 1 .. Len(tabs) : tabs[i] \in Live
    BY LenProperties, ElementOfSeq DEF TypeOK
  <1>3. Len(restored) \in Nat /\ \A i \in 1 .. Len(restored) : restored[i] \in Back
    BY LenProperties, ElementOfSeq DEF TypeOK
  <1>4. QED BY <1>1, <1>2, <1>3 DEF Indices

LEMMA NothingSaved ==
  /\ <<>> \in Seq(Entry) /\ <<>> \in Seq(Back) /\ <<>> \in Seq(Live)
  /\ Len(<<>>) = 0 /\ Indices(<<>>) = {}
  BY EmptySeq DEF Indices

LEMMA NoOwnerType == NoOwner \in [Resumable -> 0 .. MaxTabs]
  BY PlanAssumption DEF NoOwner

LEMMA InitInv == Init => PlanInv
  <1> SUFFICES ASSUME Init PROVE PlanInv
    OBVIOUS
  <1>1. TypeOK
    BY NothingSaved, NoOwnerType, PlanAssumption DEF Init, TypeOK
  <1>2. QED
    BY <1>1, NothingSaved DEF Init, PlanInv, Shape, Addresses, Apart, SavedPairing,
       Claimed, PlanTrace, OwnersPlanned

-----------------------------------------------------------------------------
(* Running.                                                                *)

\* While the process runs only the tabs and their addresses matter.
LEMMA LiveKeeps ==
  ASSUME PlanInv, phase = "live", UNCHANGED <<phase, restorerVars>>,
         records' \subseteq Resumable, damaged' \subseteq records',
         tabs' \in Seq(Live), Len(tabs') <= MaxTabs, Apart(tabs')
  PROVE  PlanInv'
  <1> USE DEF PlanInv, restorerVars
  <1>1. TypeOK'
    BY DEF TypeOK
  <1>2. Shape' /\ Claimed' /\ OwnersPlanned'
    BY DEF Shape, Claimed, OwnersPlanned
  <1>3. Addresses' /\ SavedPairing'
    BY DEF Addresses, SavedPairing, Apart
  <1>4. PlanTrace'
    <2>1. Indices(restored') = {}
      BY NothingSaved DEF Shape
    <2>2. QED BY <2>1 DEF PlanTrace
  <1>5. QED BY <1>1, <1>2, <1>3, <1>4

LEMMA LiveTabs ==
  ASSUME PlanInv
  PROVE  /\ Len(tabs) \in Nat /\ \A i \in 1 .. Len(tabs) : tabs[i] \in Live
         /\ tabs \in Seq(Live) /\ Len(tabs) <= MaxTabs /\ Apart(tabs)
         /\ records \subseteq Resumable /\ damaged \subseteq records
  BY Elements DEF PlanInv, TypeOK, Addresses, Indices

LEMMA OpenInv ==
  ASSUME PlanInv, OpenTab
  PROVE  PlanInv'
  <1> DEFINE fresh == [mapped |-> None, alias |-> Address]
  <1>1. fresh \in Live /\ fresh.alias = Address
    BY DEF Live
  <1>2. /\ tabs' = Append(tabs, fresh)
        /\ phase = "live" /\ Len(tabs) < MaxTabs
        /\ UNCHANGED <<records, damaged, phase, restorerVars>>
    BY DEF OpenTab, diskVars
  <1> HIDE DEF fresh
  <1>3. /\ tabs' \in Seq(Live) /\ Len(tabs') = Len(tabs) + 1
        /\ \A i \in 1 .. Len(tabs) : tabs'[i] = tabs[i]
        /\ tabs'[Len(tabs) + 1] = fresh
    BY <1>1, <1>2, LiveTabs, AppendProperties
  <1>4. Apart(tabs')
    <2>1. SUFFICES ASSUME NEW i \in 1 .. Len(tabs) + 1, NEW j \in 1 .. Len(tabs) + 1,
                          i # j, tabs'[i].alias # Address
                   PROVE  tabs'[i].alias # tabs'[j].alias
      BY <1>3 DEF Apart, Indices
    <2>2. CASE j = Len(tabs) + 1
      BY <1>1, <1>3, <2>1, <2>2
    <2>3. CASE j # Len(tabs) + 1
      BY LiveTabs, <1>1, <1>3, <2>1, <2>3 DEF Apart, Indices
    <2>4. QED BY <2>2, <2>3
  <1>5. QED BY <1>2, <1>3, <1>4, LiveTabs, LiveKeeps, PlanAssumption

LEMMA CloseInv ==
  ASSUME PlanInv, NEW k \in 1 .. MaxTabs, CloseTab(k)
  PROVE  PlanInv'
  <1>1. /\ k \in 1 .. Len(tabs) /\ tabs' = Without(tabs, k)
        /\ phase = "live" /\ UNCHANGED <<records, damaged, phase, restorerVars>>
    BY DEF CloseTab, Without, Indices, diskVars
  <1>2. /\ tabs' \in Seq(Live) /\ Len(tabs') = Len(tabs) - 1
        /\ \A i \in 1 .. Len(tabs) - 1 : tabs'[i] = tabs[IF i < k THEN i ELSE i + 1]
    BY <1>1, LiveTabs, WithoutOne
  <1>3. Apart(tabs')
    <2>1. SUFFICES ASSUME NEW i \in 1 .. Len(tabs) - 1, NEW j \in 1 .. Len(tabs) - 1,
                          i # j, tabs'[i].alias # Address
                   PROVE  tabs'[i].alias # tabs'[j].alias
      BY <1>2 DEF Apart, Indices
    <2> DEFINE was(n) == IF n < k THEN n ELSE n + 1
    <2>2. was(i) \in 1 .. Len(tabs) /\ was(j) \in 1 .. Len(tabs) /\ was(i) # was(j)
      BY <1>1, <2>1, LiveTabs
    <2>3. tabs'[i] = tabs[was(i)] /\ tabs'[j] = tabs[was(j)]
      BY <1>2
    <2> HIDE DEF was
    <2>4. QED BY <2>1, <2>2, <2>3, LiveTabs DEF Apart, Indices
  <1>4. QED BY <1>1, <1>2, <1>3, LiveTabs, LiveKeeps, PlanAssumption

\* One tab changes: it keeps its address, or takes one that no tab has.
LEMMA TabChanges ==
  ASSUME PlanInv, phase = "live", UNCHANGED <<phase, restorerVars>>,
         records' \subseteq Resumable, damaged' \subseteq records',
         NEW k \in 1 .. Len(tabs), NEW t \in Live, tabs' = [tabs EXCEPT ![k] = t],
         t.alias = tabs[k].alias \/ \A j \in 1 .. Len(tabs) : tabs[j].alias # t.alias
  PROVE  PlanInv'
  <1>1. /\ tabs' \in Seq(Live) /\ Len(tabs') = Len(tabs)
        /\ \A j \in 1 .. Len(tabs) : tabs'[j] = IF j = k THEN t ELSE tabs[j]
    BY LiveTabs, ExceptSeq
  <1>2. Apart(tabs')
    BY <1>1, LiveTabs DEF Apart, Indices
  <1>3. QED BY <1>1, <1>2, LiveTabs, LiveKeeps

LEMMA AliasInv ==
  ASSUME PlanInv, NEW k \in 1 .. MaxTabs, AliasTab(k)
  PROVE  PlanInv'
  <1>1. /\ k \in 1 .. Len(tabs) /\ tabs[k].mapped # None
        /\ \A j \in 1 .. Len(tabs) : tabs[j].alias # tabs[k].mapped
        /\ phase = "live" /\ UNCHANGED <<records, damaged, phase, restorerVars>>
        /\ tabs' = [tabs EXCEPT ![k].alias = tabs[k].mapped]
    BY DEF AliasTab, Indices, diskVars
  <1> DEFINE named == [tabs[k] EXCEPT !.alias = tabs[k].mapped]
  <1>2. named \in Live /\ named.alias = tabs[k].mapped
    BY <1>1, LiveTabs DEF Live
  <1>3. tabs' = [tabs EXCEPT ![k] = named]
    BY <1>1
  <1> HIDE DEF named
  <1>4. QED BY <1>1, <1>2, <1>3, LiveTabs, TabChanges

LEMMA UnpairInv ==
  ASSUME PlanInv, NEW k \in 1 .. MaxTabs, UnpairTab(k)
  PROVE  PlanInv'
  <1>1. /\ k \in 1 .. Len(tabs)
        /\ phase = "live" /\ UNCHANGED <<records, damaged, phase, restorerVars>>
        /\ tabs' = [tabs EXCEPT ![k].mapped = None]
    BY DEF UnpairTab, Indices, diskVars
  <1> DEFINE unpaired == [tabs[k] EXCEPT !.mapped = None]
  <1>2. unpaired \in Live /\ unpaired.alias = tabs[k].alias
    BY <1>1, LiveTabs DEF Live
  <1>3. tabs' = [tabs EXCEPT ![k] = unpaired]
    BY <1>1
  <1> HIDE DEF unpaired
  <1>4. QED BY <1>1, <1>2, <1>3, LiveTabs, TabChanges

LEMMA PromptInv ==
  ASSUME PlanInv, NEW k \in 1 .. MaxTabs, NEW s \in Session, NEW m \in Session,
         Prompt(k, s, m)
  PROVE  PlanInv'
  <1>1. /\ k \in 1 .. Len(tabs)
        /\ phase = "live" /\ UNCHANGED <<phase, restorerVars>>
        /\ tabs' = [tabs EXCEPT ![k].mapped = m]
        /\ records' = records \cup ({s, m} \cap Resumable)
        /\ damaged' = damaged \ {s, m}
    BY DEF Prompt, Indices
  <1> DEFINE mapped == [tabs[k] EXCEPT !.mapped = m]
  <1>2. mapped \in Live /\ mapped.alias = tabs[k].alias
    BY <1>1, LiveTabs DEF Live
  <1>3. /\ tabs' = [tabs EXCEPT ![k] = mapped]
        /\ records' \subseteq Resumable /\ damaged' \subseteq records'
    BY <1>1, LiveTabs
  <1> HIDE DEF mapped
  <1>4. QED BY <1>1, <1>2, <1>3, TabChanges

LEMMA RecordInv ==
  ASSUME PlanInv, NEW s \in Session, RemoveRecord(s) \/ DamageRecord(s)
  PROVE  PlanInv'
  <1>1. phase = "live" /\ UNCHANGED <<phase, restorerVars>> /\ tabs' = tabs
    BY DEF RemoveRecord, DamageRecord
  <1>2. records' \subseteq Resumable /\ damaged' \subseteq records'
    BY LiveTabs DEF RemoveRecord, DamageRecord
  <1>3. QED BY <1>1, <1>2, LiveTabs, LiveKeeps

\* A save keeps the addresses, and an address that names a session names the entry's.
LEMMA SavedEntries ==
  ASSUME NEW t \in Live
  PROVE  /\ SavedEntry(t) \in Entry
         /\ SavedEntry(t).alias = t.alias
         /\ SavedEntry(t).resume = None => t.alias \notin Resumable
  BY PlanAssumption DEF SavedEntry, Entry, Live, Session

LEMMA RebootInv ==
  ASSUME PlanInv, Reboot
  PROVE  PlanInv'
  <1>1. /\ phase = "live" /\ phase' = "adopt"
        /\ set' = [k \in 1 .. Len(tabs) |-> SavedEntry(tabs[k])]
        /\ owner' = ResumeOwners(set')
        /\ tabs' = <<>> /\ UNCHANGED <<records, damaged, next, restored>>
    BY DEF Reboot, Indices, diskVars
  <1>2. /\ next = 1 /\ restored = <<>>
    BY <1>1 DEF PlanInv, Shape
  <1>3. set' \in [1 .. Len(tabs) -> Entry]
    BY LiveTabs, <1>1, SavedEntries
  <1>4. set' \in Seq(Entry) /\ Len(set') = Len(tabs) /\ Indices(set') = 1 .. Len(tabs)
    BY LiveTabs, <1>3, FunctionIsSeq
  <1>5. owner' \in [Resumable -> 0 .. MaxTabs]
    BY LiveTabs, <1>1, <1>4, OwnersType
  <1>6. TypeOK'
    BY LiveTabs, <1>1, <1>2, <1>4, <1>5, NothingSaved, PlanAssumption DEF PlanInv, TypeOK
  <1>7. Shape' /\ Claimed' /\ OwnersPlanned'
    BY LiveTabs, <1>1, <1>2, <1>4 DEF Shape, Claimed, OwnersPlanned
  <1>8. \A k \in 1 .. Len(tabs) :
           /\ set'[k].alias = tabs[k].alias
           /\ set'[k].resume = None => set'[k].alias \notin Resumable
    BY LiveTabs, <1>1, SavedEntries
  <1>9. Addresses' /\ SavedPairing'
    BY LiveTabs, <1>1, <1>4, <1>8, NothingSaved
       DEF Addresses, Apart, Indices, SavedPairing
  <1>10. PlanTrace'
    BY <1>1, <1>2, NothingSaved DEF PlanTrace
  <1>11. QED BY <1>6, <1>7, <1>9, <1>10 DEF PlanInv

-----------------------------------------------------------------------------
(* The restore.                                                            *)

LEMMA AdoptInv ==
  ASSUME PlanInv, Adopt
  PROVE  PlanInv'
  <1>0. /\ Len(set) \in Nat /\ \A i \in 1 .. Len(set) : set[i] \in Entry
        /\ set \in Seq(Entry) /\ Len(set) <= MaxTabs
        /\ next \in 1 .. MaxTabs + 1
    BY Elements DEF PlanInv, TypeOK, Indices
  <1>1. /\ phase = "adopt" /\ next \in 1 .. Len(set) /\ next' = next + 1
        /\ UNCHANGED <<records, damaged, phase, owner, restored, tabs>>
    BY <1>0 DEF Adopt, diskVars
  <1>2. PICK s \in IF set[next].resume \in Resumable
                   THEN Resolved(set[next].resume) ELSE {set[next].resume} :
               set' = [set EXCEPT ![next].resume = s]
    BY DEF Adopt
  <1> DEFINE adopted == [set[next] EXCEPT !.resume = s]
  <1>3. s \in {None} \cup Session /\ (s = None => set[next].resume = None)
    <2>1. CASE set[next].resume \in Resumable
      <3>1. s \in Resumable
        BY <1>2, <2>1, PlanAssumption DEF Resolved, Resumable
      <3>2. QED BY <3>1, PlanAssumption DEF Session
    <2>2. CASE set[next].resume \notin Resumable
      BY <1>0, <1>1, <1>2, <2>2 DEF Entry
    <2>3. QED BY <2>1, <2>2
  <1>4. adopted \in Entry /\ adopted.alias = set[next].alias /\ adopted.resume = s
    BY <1>0, <1>1, <1>3 DEF Entry
  <1>5. set' = [set EXCEPT ![next] = adopted]
    BY <1>2
  <1> HIDE DEF adopted
  <1>6. /\ set' \in Seq(Entry) /\ Len(set') = Len(set)
        /\ \A i \in 1 .. Len(set) : set'[i] = IF i = next THEN adopted ELSE set[i]
    BY <1>0, <1>1, <1>4, <1>5, ExceptSeq
  <1>7. TypeOK'
    <2>1. next' \in 1 .. MaxTabs + 1
      BY <1>0, <1>1, PlanAssumption
    <2>2. QED BY <1>0, <1>1, <1>6, <2>1 DEF PlanInv, TypeOK
  <1>8. Shape' /\ Claimed' /\ OwnersPlanned'
    BY <1>0, <1>1, <1>6 DEF PlanInv, Shape, Claimed, OwnersPlanned
  <1>9. Addresses' /\ SavedPairing'
    BY <1>1, <1>3, <1>4, <1>6 DEF PlanInv, Addresses, Apart, Indices, SavedPairing
  <1>10. PlanTrace'
    BY <1>1, NothingSaved DEF PlanInv, Shape, PlanTrace
  <1>11. QED BY <1>7, <1>8, <1>9, <1>10 DEF PlanInv

LEMMA ClaimInv ==
  ASSUME PlanInv, ClaimOwners
  PROVE  PlanInv'
  <1>1. /\ phase = "adopt" /\ phase' = "plan" /\ next' = 1
        /\ owner' = ResumeOwners(set)
        /\ UNCHANGED <<records, damaged, set, restored, tabs>>
    BY DEF ClaimOwners, OwnersAfterAdoption, diskVars
  <1>2. owner' \in [Resumable -> 0 .. MaxTabs]
    BY <1>1, OwnersType DEF PlanInv, TypeOK
  <1>3. TypeOK'
    BY <1>1, <1>2, PlanAssumption DEF PlanInv, TypeOK
  <1>4. Len(set) \in Nat
    BY Elements DEF PlanInv
  <1>5. Shape' /\ Claimed' /\ OwnersPlanned'
    BY <1>1, <1>4 DEF PlanInv, Shape, Claimed, OwnersPlanned
  <1>6. Addresses' /\ SavedPairing'
    BY <1>1 DEF PlanInv, Addresses, Apart, SavedPairing
  <1>7. PlanTrace'
    BY <1>1, NothingSaved DEF PlanInv, Shape, PlanTrace
  <1>8. QED BY <1>3, <1>5, <1>6, <1>7 DEF PlanInv

PlansEntry ==
    /\ phase = "plan" /\ next \in 1 .. Len(set) /\ next' = next + 1
    /\ UNCHANGED <<records, damaged, phase, set, owner, tabs>>

\* What planning an entry leaves alone.
LEMMA PlanKeeps ==
  ASSUME PlanInv, PlansEntry
  PROVE  /\ Shape' /\ Addresses' /\ SavedPairing' /\ Claimed'
         /\ restored' \in Seq(Back) => TypeOK'
  <1>1. Len(set) \in Nat /\ Len(set) <= MaxTabs /\ next \in Nat
    BY Elements, PlanAssumption DEF PlanInv, TypeOK
  <1>2. next' \in 1 .. MaxTabs + 1
    BY <1>1, PlanAssumption DEF PlansEntry
  <1>3. restored' \in Seq(Back) => TypeOK'
    BY <1>2 DEF PlanInv, TypeOK, PlansEntry
  <1>4. Shape' /\ Claimed'
    BY <1>1 DEF PlanInv, Shape, Claimed, PlansEntry
  <1>5. Addresses' /\ SavedPairing'
    BY DEF PlanInv, Addresses, Apart, SavedPairing, PlansEntry
  <1>6. QED BY <1>3, <1>4, <1>5

\* An entry that does not come back owns no session with a record of its own.
LEMMA PlanSkips ==
  ASSUME PlanInv, PlansEntry, restored' = restored,
         ~ (set[next].resume \in Intact /\ owner[set[next].resume] = next)
  PROVE  PlanInv'
  <1>1. /\ next' = next + 1 /\ next \in Nat
        /\ UNCHANGED <<records, damaged, phase, set, owner>> /\ phase = "plan"
    BY PlanAssumption DEF PlansEntry, PlanInv, TypeOK
  <1>2. PlanTrace'
    <2>1. \A k \in Indices(restored) : CameBack(restored[k])'
      <3>1. SUFFICES ASSUME NEW k \in Indices(restored) PROVE CameBack(restored[k])'
        OBVIOUS
      <3>2. CameBack(restored[k])
        BY DEF PlanInv, PlanTrace
      <3>3. QED BY <1>1, <3>2 DEF CameBack
    <2>2. Len(restored) < next'
      BY <1>1, Elements DEF PlanInv, PlanTrace
    <2>3. QED BY <2>1, <2>2 DEF PlanInv, PlanTrace, Indices
  <1>3. OwnersPlanned'
    <2>1. SUFFICES ASSUME NEW i \in 1 .. next, set[i].resume \in Intact,
                          owner[set[i].resume] = i
                   PROVE  \E k \in Indices(restored) :
                             /\ restored[k].resumes = set[i].resume
                             /\ restored[k].alias = set[i].resume
      BY <1>1 DEF OwnersPlanned, Intact
    <2>2. i \in 1 .. next - 1
      BY <1>1, <2>1
    <2>3. QED BY <1>1, <2>1, <2>2 DEF PlanInv, OwnersPlanned
  <1>4. QED BY <1>2, <1>3, PlanKeeps DEF PlanInv, TypeOK

\* An entry that comes back is the last to do so.
LEMMA PlanAppends ==
  ASSUME PlanInv, PlansEntry,
         NEW resumes \in {None} \cup Resumable, NEW alias \in {Address} \cup Session,
         Restored(resumes, alias),
         \/ set[next].resume = None /\ resumes = None /\ alias = set[next].alias
         \/ resumes = None /\ alias = Address
         \/ /\ resumes \in Resumable
            /\ resumes = set[next].resume /\ alias = set[next].resume
            /\ owner[set[next].resume] = next,
         set[next].resume \in Intact /\ owner[set[next].resume] = next
            => resumes = set[next].resume /\ alias = set[next].resume
  PROVE  PlanInv'
  <1> DEFINE back == [from |-> next, resumes |-> resumes, alias |-> alias]
  <1>1. /\ next' = next + 1 /\ next \in Nat \ {0}
        /\ UNCHANGED <<records, damaged, phase, set, owner>> /\ phase = "plan"
    BY PlanAssumption DEF PlansEntry, PlanInv, TypeOK
  <1>2. back \in Back /\ back.from = next /\ back.resumes = resumes /\ back.alias = alias
    BY <1>1 DEF Back
  <1>3. /\ restored \in Seq(Back) /\ Len(restored) \in Nat
        /\ restored' = Append(restored, back)
    BY Elements DEF PlanInv, TypeOK, Restored
  <1> HIDE DEF back
  <1>4. /\ restored' \in Seq(Back) /\ Len(restored') = Len(restored) + 1
        /\ \A k \in 1 .. Len(restored) : restored'[k] = restored[k]
        /\ restored'[Len(restored) + 1] = back
    BY <1>2, <1>3, AppendProperties
  <1>5. \A k \in 1 .. Len(restored) : CameBack(restored[k])
    BY DEF PlanInv, PlanTrace, Indices
  <1>6. ASSUME NEW k \in 1 .. Len(restored) + 1
        PROVE  CameBack(restored[k])'
    <2>1. CASE k \in 1 .. Len(restored)
      <3>1. CameBack(restored[k])
        BY <1>5, <2>1
      <3>2. restored'[k] = restored[k] /\ UNCHANGED <<set, owner>>
        BY <1>1, <1>4, <2>1
      <3>3. QED BY <1>1, <3>1, <3>2 DEF CameBack
    <2>2. CASE k = Len(restored) + 1
      <3>1. restored'[k] = back /\ back.from \in 1 .. next' - 1
        BY <1>1, <1>2, <1>4, <2>2
      <3>2. QED BY <1>1, <1>2, <3>1 DEF CameBack
    <2>3. QED BY <1>3, <2>1, <2>2
  <1>7. ASSUME NEW j \in 1 .. Len(restored) + 1, NEW k \in 1 .. Len(restored) + 1, j < k
        PROVE  restored'[j].from < restored'[k].from
    <2>1. CASE k \in 1 .. Len(restored)
      BY <1>3, <1>4, <1>7, <2>1 DEF PlanInv, PlanTrace, Indices
    <2>2. CASE k = Len(restored) + 1
      <3>1. j \in 1 .. Len(restored)
        BY <1>3, <1>7, <2>2
      <3>2. restored[j].from \in 1 .. next - 1
        BY <1>5, <3>1 DEF CameBack
      <3>3. QED BY <1>1, <1>2, <1>4, <2>2, <3>1, <3>2
    <2>3. QED BY <1>3, <2>1, <2>2
  <1>8. PlanTrace'
    <2>1. Len(restored') < next'
      BY <1>1, <1>3, <1>4 DEF PlanInv, PlanTrace
    <2>2. QED BY <1>4, <1>6, <1>7, <2>1 DEF PlanTrace, Indices
  <1>9. OwnersPlanned'
    <2>1. SUFFICES ASSUME NEW i \in 1 .. next, set[i].resume \in Intact,
                          owner[set[i].resume] = i
                   PROVE  \E k \in 1 .. Len(restored) + 1 :
                             /\ restored'[k].resumes = set[i].resume
                             /\ restored'[k].alias = set[i].resume
      BY <1>1, <1>4 DEF OwnersPlanned, Indices, Intact
    <2>2. CASE i = next
      BY <1>2, <1>3, <1>4, <2>1, <2>2
    <2>3. CASE i # next
      <3>1. i \in 1 .. next - 1
        BY <1>1, <2>1, <2>3
      <3>2. PICK k \in 1 .. Len(restored) :
               restored[k].resumes = set[i].resume /\ restored[k].alias = set[i].resume
        BY <1>1, <2>1, <3>1 DEF PlanInv, OwnersPlanned, Indices
      <3>3. QED BY <1>3, <1>4, <3>2
    <2>4. QED BY <2>2, <2>3
  <1>10. QED BY <1>4, <1>8, <1>9, PlanKeeps DEF PlanInv

LEMMA PlansInv ==
  ASSUME PlanInv, Plan
  PROVE  PlanInv'
  <1> DEFINE e == set[next]
  <1>1. /\ Len(set) \in Nat /\ \A i \in 1 .. Len(set) : set[i] \in Entry
        /\ next \in 1 .. MaxTabs + 1 /\ Intact \subseteq Resumable
    BY Elements DEF PlanInv, TypeOK, Indices, Intact
  <1>2. PlansEntry
    BY <1>1, PlanAssumption DEF Plan, PlansEntry, diskVars
  <1>3. e \in Entry
    BY <1>1, <1>2 DEF PlansEntry
  <1>4. None \notin Resumable /\ Malformed \cap Resumable = {}
    BY PlanAssumption DEF Session
  <1>5. PlanUnprompted(e) \/ PlanMalformed(e) \/ PlanDuplicate(e) \/ PlanOwner(e)
    BY DEF Plan
  <1> HIDE DEF e
  <1>6. CASE PlanUnprompted(e)
    <2>1. e.resume = None /\ Restored(None, e.alias) /\ e.alias \in {Address} \cup Session
      BY <1>3, <1>6 DEF PlanUnprompted, Entry
    <2>2. QED BY <1>1, <1>2, <1>4, <2>1, PlanAppends DEF e
  <1>7. CASE PlanMalformed(e)
    <2>1. e.resume \in Malformed /\ Restored(None, Address)
      BY <1>7 DEF PlanMalformed
    <2>2. QED BY <1>1, <1>2, <1>4, <2>1, PlanAppends DEF e
  <1>8. CASE PlanDuplicate(e)
    BY <1>2, <1>8, PlanSkips DEF PlanDuplicate, IsOwner, e
  <1>9. CASE PlanOwner(e)
    <2>1. e.resume \in Resumable /\ owner[e.resume] = next
      BY <1>9 DEF PlanOwner, IsOwner
    <2>2. PICK answer \in RecordStates(e.resume) :
             IF Resumes(answer) THEN Restored(e.resume, e.resume)
             ELSE Restored(None, Address)
      BY <1>9 DEF PlanOwner
    <2>3. e.resume \in Intact => Resumes(answer)
      BY <2>2 DEF RecordStates, Resumes
    <2>4. e.resume \in {Address} \cup Session
      BY <2>1 DEF Session
    <2>5. CASE Resumes(answer)
      BY <1>2, <2>1, <2>2, <2>4, <2>5, PlanAppends DEF e
    <2>6. CASE ~Resumes(answer)
      BY <1>2, <2>1, <2>2, <2>3, <2>6, PlanAppends DEF e
    <2>7. QED BY <2>5, <2>6
  <1>10. QED BY <1>5, <1>6, <1>7, <1>8, <1>9

LEMMA FinishInv ==
  ASSUME PlanInv, FinishPlan
  PROVE  PlanInv'
  <1>1. /\ phase = "plan" /\ phase' = "restored" /\ next > Len(set)
        /\ UNCHANGED <<records, damaged, set, owner, next, restored, tabs>>
    BY DEF FinishPlan, restorerVars, diskVars
  <1>2. Len(set) \in Nat /\ next \in Nat
    BY Elements, PlanAssumption DEF PlanInv, TypeOK
  <1>3. TypeOK' /\ Claimed' /\ OwnersPlanned'
    BY <1>1 DEF PlanInv, TypeOK, Claimed, OwnersPlanned, Intact
  <1>4. Shape'
    BY <1>1, <1>2 DEF PlanInv, Shape
  <1>5. Addresses' /\ SavedPairing'
    BY <1>1 DEF PlanInv, Addresses, Apart, SavedPairing
  <1>6. PlanTrace'
    BY <1>1 DEF PlanInv, PlanTrace, CameBack, Indices
  <1>7. QED BY <1>3, <1>4, <1>5, <1>6 DEF PlanInv

\* What the plan brings back: one tab to a conversation and to an address, which names
\* nothing but what the tab resumes.
LEMMA PlanIsSound == PlanInv => OneTabPerConversation /\ NoStaleAddress
  <1> SUFFICES ASSUME PlanInv PROVE OneTabPerConversation /\ NoStaleAddress
    OBVIOUS
  <1>1. \A k \in Indices(restored) : CameBack(restored[k]) /\ restored[k] \in Back
    BY Elements DEF PlanInv, PlanTrace
  <1>2. ASSUME NEW j \in Indices(restored), NEW k \in Indices(restored), j # k
        PROVE  restored[j].from # restored[k].from
    <2>1. j \in Nat /\ k \in Nat /\ restored[j].from \in Nat /\ restored[k].from \in Nat
      BY <1>1 DEF Indices, Back
    <2>2. j < k \/ k < j
      BY <1>2, <2>1
    <2>3. QED BY <2>1, <2>2 DEF PlanInv, PlanTrace
  <1>3. \A i \in 1 .. next - 1 : i \in Indices(set)
    <2>1. Len(set) \in Nat /\ next \in Nat /\ next <= Len(set) + 1
      BY Elements, PlanAssumption DEF PlanInv, Shape, TypeOK
    <2>2. QED BY <2>1 DEF Indices
  <1>4. None \notin Resumable /\ Address \notin Resumable
    BY PlanAssumption DEF Session
  <1>5. NoStaleAddress
    <2>1. SUFFICES ASSUME NEW k \in Indices(restored), restored[k].alias \in Resumable
                   PROVE  restored[k].alias = restored[k].resumes
      BY DEF NoStaleAddress
    <2>2. QED
      BY <1>1, <1>3, <1>4, <2>1 DEF CameBack, PlanInv, SavedPairing
  <1>6. OneTabPerConversation
    <2>1. SUFFICES ASSUME NEW j \in Indices(restored), NEW k \in Indices(restored), j # k
                   PROVE  /\ restored[j].resumes # None =>
                                restored[j].resumes # restored[k].resumes
                          /\ restored[j].alias # Address =>
                                restored[j].alias # restored[k].alias
      BY DEF OneTabPerConversation
    <2> DEFINE x == restored[j]
               y == restored[k]
    <2>2. /\ CameBack(x) /\ CameBack(y) /\ x.from # y.from
          /\ x.from \in Indices(set) /\ y.from \in Indices(set)
      BY <1>1, <1>2, <1>3, <2>1 DEF CameBack
    <2> HIDE DEF x, y
    <2>3. x.resumes # None => x.resumes # y.resumes
      BY <1>4, <2>2 DEF CameBack
    <2>4. x.alias # Address => x.alias # y.alias
      BY <1>4, <2>2 DEF CameBack, PlanInv, SavedPairing, Addresses, Apart
    <2>5. QED BY <2>3, <2>4 DEF x, y
  <1>7. QED BY <1>5, <1>6

LEMMA SeedInv ==
  ASSUME PlanInv, Seed
  PROVE  PlanInv'
  <1>1. /\ phase = "restored" /\ phase' = "live" /\ UNCHANGED <<records, damaged>>
        /\ set' = <<>> /\ owner' = NoOwner /\ next' = 1 /\ restored' = <<>>
    BY DEF Seed, diskVars
  <1>2. PICK seeded \in SUBSET Indices(restored) :
           tabs' = [k \in Indices(restored) |->
                      IF k \in seeded THEN Paired(restored[k]) ELSE Unpaired(restored[k])]
    BY DEF Seed
  <1>3. /\ Len(restored) \in Nat /\ Len(restored) <= MaxTabs
        /\ \A k \in Indices(restored) : restored[k] \in Back
    <2>1. /\ Len(restored) \in Nat /\ Len(restored) < next
          /\ \A k \in Indices(restored) : restored[k] \in Back
      BY Elements DEF PlanInv, PlanTrace
    <2>2. next \in 1 .. MaxTabs + 1
      BY DEF PlanInv, TypeOK
    <2>3. QED BY <2>1, <2>2, PlanAssumption
  <1>4. ASSUME NEW b \in Back
        PROVE  /\ Paired(b) \in Live /\ Paired(b).alias = b.alias
               /\ Unpaired(b) \in Live /\ Unpaired(b).alias = b.alias
    BY DEF Paired, Unpaired, Live, Back, Session
  <1>5. ASSUME NEW k \in Indices(restored)
        PROVE  tabs'[k] \in Live /\ tabs'[k].alias = restored[k].alias
    BY <1>2, <1>3, <1>4
  <1>6. tabs' \in [1 .. Len(restored) -> Live]
    BY <1>2, <1>5 DEF Indices
  <1>7. /\ tabs' \in Seq(Live) /\ Len(tabs') = Len(restored)
        /\ Indices(tabs') = Indices(restored)
    BY <1>3, <1>6, FunctionIsSeq DEF Indices
  <1>8. Apart(tabs')
    BY <1>5, <1>7, PlanIsSound DEF Apart, OneTabPerConversation
  <1>9. TypeOK'
    BY <1>1, <1>3, <1>7, NothingSaved, NoOwnerType, PlanAssumption DEF PlanInv, TypeOK
  <1>10. Shape' /\ Claimed' /\ OwnersPlanned'
    BY <1>1, NothingSaved DEF Shape, Claimed, OwnersPlanned
  <1>11. Addresses' /\ SavedPairing' /\ PlanTrace'
    BY <1>1, <1>8, NothingSaved DEF Addresses, Apart, SavedPairing, PlanTrace
  <1>12. QED BY <1>9, <1>10, <1>11 DEF PlanInv

LEMMA StutterInv == PlanInv /\ UNCHANGED vars => PlanInv'
  <1> SUFFICES ASSUME PlanInv, UNCHANGED vars PROVE PlanInv'
    OBVIOUS
  <1>1. UNCHANGED <<records, damaged, phase, set, owner, next, restored, tabs>>
    BY DEF vars, diskVars, restorerVars
  <1>2. TypeOK' /\ Shape' /\ Claimed' /\ OwnersPlanned'
    BY <1>1 DEF PlanInv, TypeOK, Shape, Claimed, OwnersPlanned, Intact
  <1>3. Addresses' /\ SavedPairing'
    BY <1>1 DEF PlanInv, Addresses, Apart, SavedPairing
  <1>4. PlanTrace'
    BY <1>1 DEF PlanInv, PlanTrace, CameBack, Indices
  <1>5. QED BY <1>2, <1>3, <1>4 DEF PlanInv

\* PlanInv, the strengthening that the properties need, holds throughout.
THEOREM PlanInductive == Spec => []PlanInv
  <1>1. PlanInv /\ [Next]_vars => PlanInv'
    <2> SUFFICES ASSUME PlanInv, [Next]_vars PROVE PlanInv'
      OBVIOUS
    <2>1. CASE Restore
      BY <2>1, AdoptInv, ClaimInv, PlansInv, FinishInv, SeedInv DEF Restore
    <2>2. CASE OpenTab
      BY <2>2, OpenInv
    <2>3. CASE Reboot
      BY <2>3, RebootInv
    <2>4. ASSUME NEW k \in 1 .. MaxTabs, CloseTab(k) \/ AliasTab(k) \/ UnpairTab(k)
          PROVE  PlanInv'
      BY <2>4, CloseInv, AliasInv, UnpairInv
    <2>5. ASSUME NEW k \in 1 .. MaxTabs, NEW s \in Session, NEW m \in Session,
                 Prompt(k, s, m)
          PROVE  PlanInv'
      BY <2>5, PromptInv
    <2>6. ASSUME NEW s \in Session, RemoveRecord(s) \/ DamageRecord(s)
          PROVE  PlanInv'
      BY <2>6, RecordInv
    <2>7. CASE UNCHANGED vars
      BY <2>7, StutterInv
    <2>8. QED
      BY <2>1, <2>2, <2>3, <2>4, <2>5, <2>6, <2>7 DEF Next, User
  <1>2. QED BY InitInv, <1>1, PTL DEF Spec

-----------------------------------------------------------------------------
(* What follows.                                                           *)

\* Every variable of the restore plan keeps its type (tabrestore.go).
THEOREM TypeCorrect == Spec => []TypeOK
  <1>1. PlanInv => TypeOK
    BY DEF PlanInv
  <1>2. QED BY <1>1, PlanInductive, PTL

\* No two restored tabs resume one conversation or have one address (plan).
THEOREM OneTabEach == Spec => []OneTabPerConversation
  BY PlanIsSound, PlanInductive, PTL

\* No restored tab is addressed by a conversation it was not told to resume (plan).
THEOREM NoAddressLies == Spec => []NoStaleAddress
  BY PlanIsSound, PlanInductive, PTL

\* An old bookmark finds its conversation (resumeOwners).
THEOREM BookmarksFindTheirTabs == Spec => []BookmarkKept
  <1>1. PlanInv => BookmarkKept
    <2> SUFFICES ASSUME PlanInv, phase = "restored",
                        NEW k \in Indices(restored), NEW i \in Indices(set),
                        restored[k].resumes # None,
                        set[i].resume = restored[k].resumes,
                        set[i].alias = restored[k].resumes
                 PROVE  set[restored[k].from].alias = restored[k].resumes
      BY DEF BookmarkKept
    <2> DEFINE c == restored[k].resumes
    <2>1. /\ c \in Resumable /\ owner[c] = restored[k].from
          /\ owner = ResumeOwners(set) /\ set \in Seq(Entry)
      BY DEF PlanInv, PlanTrace, CameBack, Claimed, TypeOK
    <2>2. i \in Bookmarks(set, c)
      BY DEF Bookmarks, Naming
    <2>3. owner[c] \in Bookmarks(set, c)
      BY <2>1, <2>2, OwnerIsTheBookmarked
    <2>4. QED BY <2>1, <2>3 DEF Bookmarks
  <1>2. QED BY <1>1, PlanInductive, PTL

\* No conversation whose record is there and is its own is lost by the restore and
\* the save that follows it (plan, persist).
THEOREM NoConversationLost == Spec => []ConversationsKept
  <1>1. PlanInv => ConversationsKept
    <2> DEFINE saved == [k \in Indices(restored) |-> SavedEntry(Unpaired(restored[k]))]
    <2> SUFFICES ASSUME PlanInv, phase = "restored",
                        NEW s \in Conv \cap Intact, Names(set, s)
                 PROVE  Names(saved, s)
      BY DEF ConversationsKept
    <2>1. /\ s \in Resumable /\ set \in Seq(Entry) /\ owner = ResumeOwners(set)
          /\ Len(restored) \in Nat /\ \A k \in Indices(restored) : restored[k] \in Back
      BY Elements DEF PlanInv, TypeOK, Claimed, Resumable
    <2>2. owner[s] \in Naming(set, s)
      BY <2>1, OwnerIsTheBookmarked DEF Names, Naming
    <2>3. owner[s] \in 1 .. next - 1 /\ set[owner[s]].resume = s
      BY <2>2 DEF PlanInv, Shape, Naming, Indices
    <2>4. PICK k \in Indices(restored) : restored[k].resumes = s /\ restored[k].alias = s
      BY <2>3 DEF PlanInv, OwnersPlanned
    <2>5. saved[k].resume = s
      BY <2>1, <2>4 DEF SavedEntry, Unpaired
    <2>6. saved \in [1 .. Len(restored) -> {saved[j] : j \in Indices(restored)}]
      BY DEF Indices
    <2>7. Indices(saved) = Indices(restored)
      <3> HIDE DEF saved
      <3>1. QED BY <2>1, <2>6, FunctionIsSeq DEF Indices
    <2>8. QED BY <2>4, <2>5, <2>7 DEF Names
  <1>2. QED BY <1>1, PlanInductive, PTL

-----------------------------------------------------------------------------
(* The lock sweep.                                                         *)

USE LockAssumption DEF FromThisBoot

\* What a lock can be, and what the sweep and a program make of one.
LEMMA LockShape ==
  /\ NoLock \in Locks /\ NoLock.kind = "none"
  /\ \A t \in 0 .. MaxClock : [kind |-> "lock", at |-> t] \in Locks
  /\ \A l \in Locks : l.at \in Nat
  BY DEF Locks, NoLock, Garbled

\* With the container every program is gone, and a boot is not in the future.
BootOrder ==
    /\ up => boot <= clock
    /\ ~up => \A c \in Conversation : writers[c] = 0

\* The one program of a conversation holds a lock of this boot, and the sweep has
\* not judged that lock stale.
HolderProtected ==
    \A c \in Conversation \ crossed :
        /\ writers[c] <= 1
        /\ writers[c] = 1 => FromThisBoot(lock[c]) /\ c \notin stale

\* What the sweep is through with is of this boot, or it could not be removed.
SweepProgress ==
    up => \A c \in Conversation \ (sweep \cup stale \cup left) :
              lock[c].kind = "none" \/ FromThisBoot(lock[c])

LockInv == LocksTypeOK /\ BootOrder /\ HolderProtected /\ SweepProgress

-----------------------------------------------------------------------------
(* LockInv is inductive.                                                   *)

LEMMA LocksFlagsInit == LocksInit => LocksFlagsOK
  BY DEF LocksInit, LocksFlagsOK

LEMMA LocksFlagsStep == LocksFlagsOK /\ [LocksNext]_lockVars => LocksFlagsOK'
  BY DEF LocksFlagsOK, LocksNext, lockVars, Tick, Boot, Stop, ReadLock, CannotList,
         RemoveLock, OpenConversation, CloseConversation

LEMMA LocksInitInv == LocksInit => LockInv
  <1>1. LocksInit => LocksTypeOK
    BY LocksFlagsInit DEF LocksInit, LocksTypeOK
  <1>2. LocksInit => BootOrder
    BY DEF LocksInit, BootOrder
  <1>3. LocksInit => HolderProtected
    <2>1. SUFFICES ASSUME LocksInit, NEW c \in Conversation
                   PROVE  writers[c] <= 1 /\ writers[c] # 1
      BY Zenon DEF HolderProtected
    <2>2. writers[c] = 0
      BY <2>1 DEF LocksInit
    <2>3. QED BY <2>2
  <1>4. LocksInit => SweepProgress
    BY DEF LocksInit, SweepProgress
  <1>5. QED BY <1>1, <1>2, <1>3, <1>4 DEF LockInv

\* The container: a boot starts without programs, a stop leaves none.
LEMMA ContainerInv ==
  ASSUME LockInv, LocksFlagsOK', Tick \/ Boot \/ Stop
  PROVE  LockInv'
  <1> USE DEF LockInv, LocksTypeOK, BootOrder, HolderProtected, SweepProgress
  <1>1. CASE Tick BY <1>1 DEF Tick
  <1>2. CASE Boot BY <1>2 DEF Boot
  <1>3. CASE Stop BY <1>3 DEF Stop
  <1>4. QED BY <1>1, <1>2, <1>3

\* The sweep: a lock of this boot is never judged stale, so a removal takes the
\* lock of a program only if the program crossed it.
LEMMA SweepInv ==
  ASSUME LockInv, LocksFlagsOK',
         NEW c \in Conversation, ReadLock(c) \/ CannotList(c) \/ RemoveLock(c)
  PROVE  LockInv'
  <1> USE DEF LockInv, LocksTypeOK, BootOrder, HolderProtected, SweepProgress
  <1>1. CASE ReadLock(c)   BY <1>1 DEF ReadLock, Kept
  <1>2. CASE CannotList(c) BY <1>2 DEF CannotList
  <1>3. CASE RemoveLock(c) BY <1>3, LockShape DEF RemoveLock
  <1>4. QED BY <1>1, <1>2, <1>3

\* The programs: a lock with a program behind it refuses the second.
LEMMA ProgramInv ==
  ASSUME LockInv, LocksFlagsOK',
         NEW c \in Conversation, OpenConversation(c) \/ CloseConversation(c)
  PROVE  LockInv'
  <1> USE DEF LockInv, LocksTypeOK, BootOrder, HolderProtected, SweepProgress
  <1>1. CASE OpenConversation(c)
    BY <1>1, LockShape DEF OpenConversation, MayStart
  <1>2. CASE CloseConversation(c)
    BY <1>2, LockShape DEF CloseConversation
  <1>3. QED BY <1>1, <1>2

LEMMA LocksStutterInv == LockInv /\ UNCHANGED lockVars => LockInv'
  BY DEF LockInv, LocksTypeOK, LocksFlagsOK, BootOrder, HolderProtected, SweepProgress,
         lockVars

\* LockInv, the strengthening that the properties need, holds throughout.
THEOREM LocksInductive == LocksSpec => []LockInv
  <1>1. LockInv /\ [LocksNext]_lockVars => LockInv'
    <2> SUFFICES ASSUME LockInv, [LocksNext]_lockVars PROVE LockInv'
      OBVIOUS
    <2>1. LocksFlagsOK'
      BY LocksFlagsStep DEF LockInv, LocksTypeOK
    <2>2. QED
      BY <2>1, ContainerInv, SweepInv, ProgramInv, LocksStutterInv DEF LocksNext
  <1>2. QED BY LocksInitInv, <1>1, PTL DEF LocksSpec

-----------------------------------------------------------------------------
(* What follows.                                                           *)

\* Every variable of the sweep keeps its type (sweepStaleKiroLocks, run).
THEOREM LocksTypeCorrect == LocksSpec => []LocksTypeOK
  BY LocksInductive, PTL DEF LockInv

\* No removal lets two programs write one conversation at a time, one opened between
\* the sweep's look at its lock and its removal left out (lockFromThisBoot keeps the
\* locks of this boot).
THEOREM NoSecondWriter == LocksSpec => []OneWriter
  <1>1. LockInv => OneWriter
    BY DEF LockInv, HolderProtected, OneWriter
  <1>2. QED BY <1>1, LocksInductive, PTL

\* A restored tab finds no lock of an earlier boot (run: "the sweep goes first").
THEOREM RestoreFindsNoStaleLock == LocksSpec => []NoStaleLockLeft
  <1>1. LockInv => NoStaleLockLeft
    BY DEF LockInv, SweepProgress, NoStaleLockLeft, MayStart, Swept
  <1>2. QED BY <1>1, LocksInductive, PTL
=============================================================================
