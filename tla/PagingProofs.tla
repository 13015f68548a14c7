---------------------------- MODULE PagingProofs ----------------------------
(***************************************************************************)
(* What Paging promises, proved for every number of pages and frames and   *)
(* every page of the kernel.                                               *)
(***************************************************************************)
EXTENDS Paging, TLAPS

\* The entry that holds the flags of a new page and the address of an old one.
Changing(page) == page = at /\ pc = "address"

\* Frames below this one may be in the directory.
Bound == IF pc \in {"flag", "address"} THEN last_available_physical_addr - 1
                                       ELSE last_available_physical_addr

Owned ==
    \A p \in Pages :
        /\ ~directory[p].user => directory[p].frame = 0
        /\ directory[p].user /\ ~Changing(p) =>
              directory[p].frame > 0 /\ directory[p].frame < Bound

Distinct ==
    \A p, q \in Pages :
        /\ p # q
        /\ directory[p].user /\ ~Changing(p)
        /\ directory[q].user /\ ~Changing(q)
        => directory[p].frame # directory[q].frame

\* Pages whose kept translation may be an older one.
Unflushed(page) ==
    \/ page = at /\ pc \in {"address", "flush"}
    \/ page = 0 /\ pc = "flush identity"

Fresh ==
    \A p \in Pages : tlb[p].present => tlb[p] = directory[p] \/ Unflushed(p)

KernelKept ==
    /\ at # Kernel
    /\ directory[Kernel] = System
    /\ code = IF pc = "low" THEN 0 ELSE Kernel
    /\ pc = "low" => directory[0] = System

Counted ==
    /\ last_available_physical_addr >= 1
    /\ pc \in {"flag", "address", "flush"} =>
          last_available_physical_addr >= 2 /\ last_available_physical_addr < Memory

\* The frames of pages in use lie below the next one, are all different, and the
\* processor keeps an older translation only of the page that is being mapped.
IInv == TypeOK /\ Owned /\ Distinct /\ Fresh /\ KernelKept /\ Counted

LEMMA EntriesTyped ==
    /\ Absent \in Entry /\ System \in Entry
    /\ \A frame \in Frames : Mapped(frame) \in Entry
    /\ \A e \in Entry : e.present \in BOOLEAN /\ e.user \in BOOLEAN /\ e.frame \in Frames
BY PagesAssumption DEF Entry, Absent, System, Mapped, Frames

LEMMA InitIInv == Init => IInv
<1> USE PagesAssumption, EntriesTyped DEF Pages, System, Absent
<1> SUFFICES ASSUME Init PROVE IInv
  OBVIOUS
<1>1. TypeOK BY DEF Init, TypeOK
<1>2. Owned /\ Distinct BY DEF Init, Owned, Distinct
<1>3. Fresh BY DEF Init, Fresh
<1>4. KernelKept /\ Counted BY DEF Init, KernelKept, Counted
<1> QED BY <1>1, <1>2, <1>3, <1>4 DEF IInv

LEMMA NextIInv == IInv /\ [Next]_vars => IInv'
<1> USE PagesAssumption, EntriesTyped
<1> SUFFICES ASSUME IInv, [Next]_vars PROVE IInv'
  OBVIOUS
<1> USE DEF IInv, System, Absent
<1>1. ASSUME NEW page \in Pages, Keep(page) PROVE IInv'
  <2>1. TypeOK' BY <1>1 DEF Keep, TypeOK
  <2>2. (Owned /\ Distinct /\ KernelKept /\ Counted)'
    BY <1>1 DEF Keep, Owned, Distinct, KernelKept, Counted, Changing, Bound
  <2>3. Fresh' BY <1>1 DEF Keep, Fresh, Unflushed, TypeOK
  <2> QED BY <2>1, <2>2, <2>3
<1>2. ASSUME NEW page \in Pages, Forget(page) PROVE IInv'
  <2>1. TypeOK' BY <1>2 DEF Forget, TypeOK
  <2>2. (Owned /\ Distinct /\ KernelKept /\ Counted)'
    BY <1>2 DEF Forget, Owned, Distinct, KernelKept, Counted, Changing, Bound
  <2>3. Fresh' BY <1>2 DEF Forget, Fresh, Unflushed, TypeOK
  <2> QED BY <2>1, <2>2, <2>3
<1>3. CASE JumpHigh
  BY <1>3 DEF JumpHigh, TypeOK, Owned, Distinct, Fresh, KernelKept, Counted,
              Changing, Bound, Unflushed
<1>4. CASE DropIdentity
  <2>1. TypeOK' BY <1>4 DEF DropIdentity, DropFrom, TypeOK
  <2>2. Owned' BY <1>4 DEF DropIdentity, DropFrom, TypeOK, Owned, Changing, Bound
  <2>3. Distinct' BY <1>4 DEF DropIdentity, DropFrom, TypeOK, Distinct, Changing
  <2>4. Fresh' BY <1>4 DEF DropIdentity, DropFrom, TypeOK, Fresh, Unflushed
  <2>5. (KernelKept /\ Counted)'
    BY <1>4 DEF DropIdentity, DropFrom, TypeOK, KernelKept, Counted
  <2> QED BY <2>1, <2>2, <2>3, <2>4, <2>5
<1>5. CASE FlushIdentity
  <2>1. TypeOK' BY <1>5 DEF FlushIdentity, Flushed, TypeOK
  <2>2. (Owned /\ Distinct /\ KernelKept /\ Counted)'
    BY <1>5 DEF FlushIdentity, Owned, Distinct, KernelKept, Counted, Changing, Bound
  <2>3. Fresh' BY <1>5 DEF FlushIdentity, Flushed, Fresh, Unflushed, TypeOK
  <2> QED BY <2>1, <2>2, <2>3
<1>6. ASSUME NEW page \in Pages \ {Kernel}, Allocate(page) PROVE IInv'
  <2>1. TypeOK' BY <1>6 DEF Allocate, Taken, Next_physical_addr, TypeOK
  <2>2. (Owned /\ Distinct)'
    BY <1>6 DEF Allocate, Taken, Next_physical_addr, TypeOK, Owned, Distinct, Changing, Bound
  <2>3. (Fresh /\ KernelKept)' BY <1>6 DEF Allocate, Fresh, Unflushed, KernelKept
  <2>4. Counted'
    BY <1>6 DEF Allocate, Taken, MemoryLeft, Next_physical_addr, Counted, TypeOK
  <2> QED BY <2>1, <2>2, <2>3, <2>4
<1>7. CASE SetFlag
  <2>1. /\ at \in Pages /\ at # Kernel /\ pc = "flag" /\ pc' = "address"
        /\ directory' = [directory EXCEPT ![at] = Mapped(directory[at].frame)]
        /\ UNCHANGED <<last_available_physical_addr, tlb, code, at>>
    BY <1>7 DEF SetFlag, TypeOK, KernelKept
  <2>2. \A p \in Pages : p # at => directory'[p] = directory[p]
    BY <2>1 DEF TypeOK
  <2>3. directory'[at] = [present |-> TRUE, user |-> TRUE, frame |-> directory[at].frame]
    BY <2>1 DEF TypeOK, Mapped
  <2>4. TypeOK' BY <2>1 DEF TypeOK
  <2>5. Owned' BY <2>1, <2>2, <2>3 DEF Owned, Changing, Bound
  <2>6. Distinct' BY <2>1, <2>2 DEF Distinct, Changing
  <2>7. Fresh' BY <2>1, <2>2 DEF Fresh, Unflushed
  <2>8. (KernelKept /\ Counted)' BY <2>1, <2>2 DEF Pages, KernelKept, Counted
  <2> QED BY <2>4, <2>5, <2>6, <2>7, <2>8
<1>8. CASE SetAddress
  <2> DEFINE new == last_available_physical_addr - 1
  <2>1. /\ at \in Pages /\ at # Kernel /\ pc = "address" /\ pc' = "flush"
        /\ directory' = [directory EXCEPT ![at] = Mapped(new)]
        /\ UNCHANGED <<last_available_physical_addr, tlb, code, at>>
    BY <1>8 DEF SetAddress, TypeOK, KernelKept
  <2>2. \A p \in Pages : p # at => directory'[p] = directory[p]
    BY <2>1 DEF TypeOK
  <2>3. directory'[at] = [present |-> TRUE, user |-> TRUE, frame |-> new]
    BY <2>1 DEF TypeOK, Mapped
  <2>4. new \in Nat /\ new > 0 /\ new < Memory
    BY <2>1 DEF Counted, TypeOK
  <2>5. TypeOK'
    <3>1. new \in Frames BY <2>4 DEF Frames
    <3>2. Mapped(new) \in Entry BY <3>1
    <3> HIDE DEF new
    <3> QED BY <2>1, <3>2 DEF TypeOK
  <2>6. Owned'
    <3>1. ASSUME NEW p \in Pages PROVE directory[p].frame \in Int
      <4>1. directory[p] \in Entry BY DEF TypeOK
      <4>2. directory[p].frame \in Frames BY <4>1
      <4> QED BY <4>2 DEF Frames
    <3>2. Bound = new /\ Bound' = new + 1 BY <2>1, <2>4 DEF Bound, TypeOK
    <3>3. ~directory'[at].user => directory'[at].frame = 0 BY <2>3
    <3>4. directory'[at].frame > 0 /\ directory'[at].frame < Bound'
      BY <2>3, <2>4, <3>2
    <3>5. ASSUME NEW p \in Pages, p # at
          PROVE  /\ ~directory'[p].user => directory'[p].frame = 0
                 /\ directory'[p].user =>
                       directory'[p].frame > 0 /\ directory'[p].frame < Bound'
      BY <2>2, <2>4, <3>1, <3>2, <3>5 DEF Owned, Changing
    <3> QED BY <2>1, <3>3, <3>4, <3>5 DEF Owned
  <2>7. Distinct'
    <3>1. \A p \in Pages : p # at /\ directory[p].user => directory[p].frame # new
      BY <2>1, <2>4 DEF TypeOK, Frames, Owned, Changing, Bound
    <3> QED BY <2>1, <2>2, <2>3, <3>1 DEF Distinct, Changing
  <2>8. Fresh' BY <2>1, <2>2 DEF Fresh, Unflushed
  <2>9. (KernelKept /\ Counted)' BY <2>1, <2>2 DEF Pages, KernelKept, Counted
  <2> QED BY <2>5, <2>6, <2>7, <2>8, <2>9
<1>9. CASE FlushPage
  <2>1. TypeOK' BY <1>9 DEF FlushPage, Flushed, TypeOK
  <2>2. (Owned /\ Distinct /\ KernelKept /\ Counted)'
    BY <1>9 DEF FlushPage, Owned, Distinct, KernelKept, Counted, Changing, Bound
  <2>3. Fresh' BY <1>9 DEF FlushPage, Flushed, Fresh, Unflushed, TypeOK
  <2> QED BY <2>1, <2>2, <2>3
<1>10. CASE Leave \/ Return
  <2>1. /\ pc \in {"kernel", "user"} /\ pc' \in {"kernel", "user"}
        /\ UNCHANGED <<directory, last_available_physical_addr, tlb, code, at>>
    BY <1>10 DEF Leave, Return
  <2>2. TypeOK' BY <2>1 DEF TypeOK
  <2>3. (Owned /\ Distinct)' BY <2>1 DEF Owned, Distinct, Changing, Bound
  <2>4. Fresh' BY <2>1 DEF Fresh, Unflushed
  <2>5. (KernelKept /\ Counted)' BY <2>1 DEF KernelKept, Counted
  <2> QED BY <2>2, <2>3, <2>4, <2>5
<1>11. CASE AllocateRefused \/ UNCHANGED vars
  <2>1. UNCHANGED <<directory, last_available_physical_addr, tlb, pc, code, at>>
    BY <1>11 DEF AllocateRefused, vars
  <2>2. TypeOK' BY <2>1 DEF TypeOK
  <2>3. (Owned /\ Distinct)' BY <2>1 DEF Owned, Distinct, Changing, Bound
  <2>4. Fresh' BY <2>1 DEF Fresh, Unflushed
  <2>5. (KernelKept /\ Counted)' BY <2>1 DEF KernelKept, Counted
  <2> QED BY <2>2, <2>3, <2>4, <2>5
<1> QED
  BY <1>1, <1>2, <1>3, <1>4, <1>5, <1>6, <1>7, <1>8, <1>9, <1>10, <1>11 DEF Next

LEMMA AlwaysIInv == Spec => []IInv
<1>1. Init => IInv BY InitIInv
<1>2. IInv /\ [Next]_vars => IInv' BY NextIInv
<1> QED BY <1>1, <1>2, PTL DEF Spec

\* Every frame in the directory is one of the machine's.
THEOREM PagesTyped == Spec => []TypeOK
<1>1. IInv => TypeOK BY DEF IInv
<1> QED BY <1>1, AlwaysIInv, PTL

\* What the processor has kept is never old when a program runs.
THEOREM TranslationsFresh == Spec => []NothingStale
<1>1. IInv => NothingStale BY DEF IInv, Fresh, Unflushed, NothingStale
<1> QED BY <1>1, AlwaysIInv, PTL

\* The instructions the processor executes are always where it looks for them.
THEOREM CodeIsMapped == Spec => []CodeStays
<1> USE PagesAssumption DEF Pages
<1>1. ASSUME IInv PROVE CodeStays
  <2>1. code \in Pages /\ directory[code] = System
    BY <1>1 DEF IInv, KernelKept
  <2>2. ~Unflushed(code) BY <1>1 DEF IInv, KernelKept, Unflushed
  <2>3. tlb[code].present => tlb[code] = System
    BY <1>1, <2>1, <2>2 DEF IInv, Fresh
  <2> QED BY <2>1, <2>3 DEF CodeStays, Translations, System
<1> QED BY <1>1, AlwaysIInv, PTL

\* User pages reach frames of their own, never the kernel's.
THEOREM UserPagesApart == Spec => []UserApart
<1>1. ASSUME IInv PROVE UserApart
  <2> SUFFICES ASSUME pc = "user", NEW p \in Pages, NEW q \in Pages,
                      NEW e \in Translations(p), NEW f \in Translations(q), e.user
               PROVE e.frame # 0 /\ (p # q => e.frame # f.frame)
    BY DEF UserApart
  <2>1. e = directory[p] /\ f = directory[q]
    BY <1>1 DEF IInv, Fresh, Unflushed, Translations
  <2>2. e.frame # 0 BY <1>1, <2>1 DEF IInv, Owned, Changing
  <2>3. ASSUME p # q, f.user PROVE e.frame # f.frame
    BY <1>1, <2>1, <2>3 DEF IInv, Distinct, Changing
  <2>4. ~f.user => f.frame = 0
    BY <1>1, <2>1 DEF IInv, Owned
  <2> QED BY <2>2, <2>3, <2>4
<1> QED BY <1>1, AlwaysIInv, PTL

=============================================================================
