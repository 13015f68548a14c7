---------------------------- MODULE TrapsProofs ----------------------------
(***************************************************************************)
(* Whatever an interrupt interrupts goes on as if nothing had happened.    *)
(* The invariant says, for every instruction of the stub, which words of   *)
(* the stack still hold what the interrupted program had, and which        *)
(* registers have it back; a second interrupt keeps this for the first.    *)
(***************************************************************************)
EXTENDS Traps, TLAPS

\* The instructions of handler and stub, and the others.
InStub == {"handler", "wait", "eax", "ebx", "ecx", "edx", "ebp",
           "esp", "add esp", "sti"}
Places == InStub \cup {"boot", "launch", "user"}

Words == BOOLEAN \cup Places \cup {"ss", "user esp", "error code", "0"}
           \cup Nat \cup Numbers \cup Values

Record == [regs : [General -> Values], height : Nat, user : BOOLEAN,
           interrupts : BOOLEAN, at : Places, number : Numbers]

\* Where the words of an interrupt begin, for a user program after ss and esp.
Base(r) == IF r.user THEN 2 ELSE r.height

\* How many of its words are on the stack before an instruction.
Above(place) ==
    IF place \in {"handler", "wait", "eax"} THEN 11
    ELSE IF place = "ebx" THEN 10
    ELSE IF place = "ecx" THEN 9
    ELSE IF place = "edx" THEN 8
    ELSE IF place = "ebp" THEN 7
    ELSE IF place = "esp" THEN 6
    ELSE IF place = "add esp" THEN 5
    ELSE 3

\* Where it keeps a register.
Offset(g) ==
    IF g = "eax" THEN 11
    ELSE IF g = "ebx" THEN 10
    ELSE IF g = "ecx" THEN 9
    ELSE IF g = "edx" THEN 8
    ELSE 7

\* The interrupted program's state is on the stack, or back in the registers.
Kept(r, words, place, values) ==
    /\ words[Base(r) + 1] = r.interrupts
    /\ words[Base(r) + 2] = r.user
    /\ words[Base(r) + 3] = r.at
    /\ Above(place) = 11 => words[Base(r) + 5] = r.number
    /\ Above(place) >= 6 => words[Base(r) + 6] = Base(r) + 5
    /\ \A g \in General : IF Offset(g) <= Above(place)
                          THEN words[Base(r) + Offset(g)] = r.regs[g]
                          ELSE values[g] = r.regs[g]

\* The program outside any interrupt.
Outside(place, privilege, height, words) ==
    \/ place = "boot" /\ ~privilege /\ height = 0
    \/ /\ place = "launch" /\ ~privilege /\ height = 5
       /\ words[3] = TRUE /\ words[4] = TRUE /\ words[5] = "user"
    \/ place = "user" /\ privilege /\ height = 0

\* The innermost interrupt is being handled.
Handling(r) ==
    /\ r \in Record
    /\ r.interrupts = TRUE
    /\ at \in InStub /\ ~user
    /\ Len(stack) = Base(r) + Above(at)
    /\ Kept(r, stack, at, regs)

\* The first interrupt, of the program.
FirstOne(r) ==
    /\ Outside(r.at, r.user, r.height, stack)
    /\ r.interrupts = TRUE
    /\ r.number = SystemCall => r.user

Level0 == interrupted = <<>> /\ interrupts = TRUE /\ Outside(at, user, Len(stack), stack)

Level1 ==
    /\ Len(interrupted) = 1
    /\ FirstOne(interrupted[1]) /\ Handling(interrupted[1])
    /\ interrupts \/ at = "wait" => interrupted[1].number = SystemCall /\ at # "handler"

\* A device has interrupted the wait of system call 4, or what follows it.
Level2 ==
    /\ Len(interrupted) = 2
    /\ FirstOne(interrupted[1]) /\ interrupted[1].number = SystemCall
    /\ interrupted[2].at \in InStub \ {"handler"}
    /\ ~interrupted[2].user
    /\ interrupted[2].height = Base(interrupted[1]) + Above(interrupted[2].at)
    /\ interrupted[2].number # SystemCall
    /\ Kept(interrupted[1], stack, interrupted[2].at, interrupted[2].regs)
    /\ Handling(interrupted[2])
    /\ interrupts = FALSE /\ at # "wait"

Typed ==
    /\ stack \in Seq(Words) /\ regs \in [General -> Values]
    /\ user \in BOOLEAN /\ interrupts \in BOOLEAN /\ at \in Places
    /\ interrupted \in Seq(Record)

IInv == Typed /\ (Level0 \/ Level1 \/ Level2)

----------------------------------------------------------------------------
(* Sequences. *)

\* Appending, with the typing the provers need.
LEMMA Concatenated ==
    ASSUME NEW W, NEW s \in Seq(W), NEW t \in Seq(W), NEW st, st = s \o t
    PROVE  /\ st \in Seq(W)
           /\ Len(st) = Len(s) + Len(t)
           /\ \A i \in 1 .. Len(s) : st[i] = s[i]
           /\ \A i \in 1 .. Len(t) : st[Len(s) + i] = t[i]
OBVIOUS

\* The words the processor and the stub push before esp.
Frame(W, base, a, b, c, e, entry) ==
    /\ entry \in Seq(W) /\ Len(entry) = Len(base) + 5
    /\ \A i \in 1 .. Len(base) : entry[i] = base[i]
    /\ entry[Len(base) + 1] = a /\ entry[Len(base) + 2] = b
    /\ entry[Len(base) + 3] = c /\ entry[Len(base) + 5] = e

LEMMA EntryShape ==
    ASSUME NEW W, NEW base \in Seq(W),
           NEW a \in W, NEW b \in W, NEW c \in W, NEW d \in W, NEW e \in W,
           NEW entry,
           \/ entry = ((base \o <<a, b, c>>) \o <<d>>) \o <<e>>
           \/ entry = ((base \o <<a, b, c>>) \o <<>>) \o <<d, e>>
    PROVE  Frame(W, base, a, b, c, e, entry)
<1> DEFINE p == base \o <<a, b, c>>
<1>0. <<a, b, c>> \in Seq(W) /\ Len(base) \in Nat
  OBVIOUS
<1>1. /\ p \in Seq(W) /\ Len(p) = Len(base) + 3
      /\ \A i \in 1 .. Len(base) : p[i] = base[i]
      /\ p[Len(base) + 1] = a /\ p[Len(base) + 2] = b /\ p[Len(base) + 3] = c
  BY <1>0, Concatenated
<1> HIDE DEF p
<1>2. ASSUME entry = (p \o <<d>>) \o <<e>>
      PROVE  /\ entry \in Seq(W) /\ Len(entry) = Len(base) + 5
             /\ \A i \in 1 .. Len(base) : entry[i] = base[i]
             /\ entry[Len(base) + 1] = a /\ entry[Len(base) + 2] = b
             /\ entry[Len(base) + 3] = c /\ entry[Len(base) + 5] = e
  BY <1>0, <1>1, <1>2
<1>3. ASSUME entry = (p \o <<>>) \o <<d, e>>
      PROVE  /\ entry \in Seq(W) /\ Len(entry) = Len(base) + 5
             /\ \A i \in 1 .. Len(base) : entry[i] = base[i]
             /\ entry[Len(base) + 1] = a /\ entry[Len(base) + 2] = b
             /\ entry[Len(base) + 3] = c /\ entry[Len(base) + 5] = e
  BY <1>0, <1>1, <1>3
<1>4. /\ entry \in Seq(W) /\ Len(entry) = Len(base) + 5
      /\ \A i \in 1 .. Len(base) : entry[i] = base[i]
      /\ entry[Len(base) + 1] = a /\ entry[Len(base) + 2] = b
      /\ entry[Len(base) + 3] = c /\ entry[Len(base) + 5] = e
  BY <1>2, <1>3 DEF p
<1> QED
  BY <1>4, Zenon DEF Frame

\* The whole of what an interrupt leaves on the stack.
Whole(W, entry, saved, st) ==
    /\ st \in Seq(W) /\ Len(st) = Len(entry) + 6
    /\ \A i \in 1 .. Len(entry) : st[i] = entry[i]
    /\ st[Len(entry) + 1] = Len(entry)
    /\ \A k \in 1 .. 5 : st[Len(entry) + 1 + k] = saved[k]

LEMMA StackShape ==
    ASSUME NEW W, NEW entry \in Seq(W), Len(entry) \in W,
           NEW saved \in Seq(W), Len(saved) = 5, NEW st,
           st = (entry \o <<Len(entry)>>) \o saved
    PROVE  Whole(W, entry, saved, st)
<1>1. /\ entry \o <<Len(entry)>> \in Seq(W)
      /\ Len(entry \o <<Len(entry)>>) = Len(entry) + 1
      /\ \A i \in 1 .. Len(entry) : (entry \o <<Len(entry)>>)[i] = entry[i]
      /\ (entry \o <<Len(entry)>>)[Len(entry) + 1] = Len(entry)
  OBVIOUS
<1>2. PICK p \in Seq(W) :
        /\ st = p \o saved
        /\ Len(p) = Len(entry) + 1
        /\ \A i \in 1 .. Len(entry) : p[i] = entry[i]
        /\ p[Len(entry) + 1] = Len(entry)
  BY <1>1, Zenon
<1>3. /\ st \in Seq(W) /\ Len(st) = Len(p) + Len(saved)
      /\ \A i \in 1 .. Len(p) : st[i] = p[i]
      /\ \A i \in 1 .. Len(saved) : st[Len(p) + i] = saved[i]
  <2>1. st = p \o saved
    BY <1>2
  <2> QED
    BY ONLY p \in Seq(W), saved \in Seq(W), <2>1, SMT
<1>4. Len(entry) \in Nat
  OBVIOUS
<1> QED
  BY <1>2, <1>3, <1>4 DEF Whole

LEMMA PairShape ==
    ASSUME NEW W, NEW a \in W, NEW b \in W
    PROVE  <<a, b>> \in Seq(W) /\ Len(<<a, b>>) = 2
OBVIOUS

LEMMA Shortened ==
    ASSUME NEW W, NEW s \in Seq(W), NEW n \in Nat, n <= Len(s)
    PROVE  /\ SubSeq(s, 1, n) \in Seq(W) /\ Len(SubSeq(s, 1, n)) = n
           /\ \A i \in 1 .. n : SubSeq(s, 1, n)[i] = s[i]
OBVIOUS

LEMMA LastAndFront ==
    ASSUME NEW W, NEW s \in Seq(W), NEW n \in Nat, Len(s) = n + 1
    PROVE  /\ Front(s) \in Seq(W) /\ Len(Front(s)) = n
           /\ \A i \in 1 .. n : Front(s)[i] = s[i]
           /\ Last(s) = s[n + 1]
BY DEF Front, Last

LEMMA Appended ==
    ASSUME NEW W, NEW s \in Seq(W), NEW e \in W
    PROVE  /\ Append(s, e) \in Seq(W) /\ Len(Append(s, e)) = Len(s) + 1
           /\ \A i \in 1 .. Len(s) : Append(s, e)[i] = s[i]
           /\ Append(s, e)[Len(s) + 1] = e
OBVIOUS

----------------------------------------------------------------------------
(* What is kept. *)

LEMMA GeneralIs == General = {"eax", "ebx", "ecx", "edx", "ebp"}
BY DEF General, Fields, Range

LEMMA AboveRange ==
    ASSUME NEW place
    PROVE  Above(place) \in 3 .. 11
BY DEF Above

LEMMA AboveIs ==
    /\ Above("handler") = 11 /\ Above("wait") = 11 /\ Above("eax") = 11
    /\ Above("ebx") = 10 /\ Above("ecx") = 9 /\ Above("edx") = 8 /\ Above("ebp") = 7
    /\ Above("esp") = 6 /\ Above("add esp") = 5 /\ Above("sti") = 3
BY DEF Above

LEMMA OffsetIs ==
    /\ Offset("eax") = 11 /\ Offset("ebx") = 10 /\ Offset("ecx") = 9
    /\ Offset("edx") = 8 /\ Offset("ebp") = 7
    /\ \A g \in General : Offset(g) \in 7 .. 11
BY GeneralIs DEF Offset

LEMMA BaseIs ==
    ASSUME NEW r \in Record
    PROVE  Base(r) \in Nat
BY DEF Base, Record

\* The words above an interrupt's own do not matter to it.
LEMMA KeptElsewhere ==
    ASSUME NEW r \in Record, NEW place, NEW values, NEW words, NEW others,
           Kept(r, words, place, values),
           \A i \in 1 .. Base(r) + Above(place) : others[i] = words[i]
    PROVE  Kept(r, others, place, values)
<1>1. Base(r) \in Nat /\ Above(place) \in 3 .. 11 /\ \A g \in General : Offset(g) \in 7 .. 11
  BY BaseIs, AboveRange, OffsetIs
<1>2. Above(place) >= 5 => others[Base(r) + 5] = words[Base(r) + 5]
  BY <1>1
<1>3. Above(place) >= 6 => others[Base(r) + 6] = words[Base(r) + 6]
  BY <1>1
<1>4. \A j \in 1 .. 3 : others[Base(r) + j] = words[Base(r) + j]
  BY <1>1
<1>5. \A g \in General : Offset(g) <= Above(place) =>
         others[Base(r) + Offset(g)] = words[Base(r) + Offset(g)]
  BY <1>1
<1>6. /\ others[Base(r) + 1] = r.interrupts
      /\ others[Base(r) + 2] = r.user
      /\ others[Base(r) + 3] = r.at
  <2>1. /\ words[Base(r) + 1] = r.interrupts /\ words[Base(r) + 2] = r.user
        /\ words[Base(r) + 3] = r.at
    BY DEF Kept
  <2> QED
    BY <1>4, <2>1
<1>7. Above(place) = 11 => others[Base(r) + 5] = r.number
  BY <1>1, <1>2 DEF Kept
<1>8. Above(place) >= 6 => others[Base(r) + 6] = Base(r) + 5
  BY <1>1, <1>3 DEF Kept
<1>9. \A g \in General : IF Offset(g) <= Above(place)
                         THEN others[Base(r) + Offset(g)] = r.regs[g]
                         ELSE values[g] = r.regs[g]
  BY <1>5 DEF Kept
<1> QED
  BY <1>6, <1>7, <1>8, <1>9 DEF Kept

\* An instruction that moves only esp, or nothing.
LEMMA KeptShorter ==
    ASSUME NEW r \in Record, NEW place, NEW values, NEW words, NEW after,
           Kept(r, words, place, values),
           Above(after) <= Above(place), Above(place) <= 6
    PROVE  Kept(r, words, after, values)
<1>1. /\ Above(place) \in 3 .. 11 /\ Above(after) \in 3 .. 11
      /\ \A g \in General : Offset(g) \in 7 .. 11
  BY AboveRange, OffsetIs
<1>2. Above(after) >= 6 => Above(place) >= 6
  BY <1>1
<1>3. \A g \in General : ~(Offset(g) <= Above(place)) /\ ~(Offset(g) <= Above(after))
  BY <1>1
<1>4. ~(Above(after) = 11)
  BY <1>1
<1> QED
  BY <1>2, <1>3, <1>4 DEF Kept

\* A pop puts one register back.
Popped(r, W, words, after, others, now) ==
    /\ Kept(r, others, after, now)
    /\ others \in Seq(W)
    /\ Len(others) = Base(r) + Above(after)
    /\ now \in [General -> Values]
    /\ \A i \in 1 .. Base(r) + 3 : others[i] = words[i]

LEMMA KeptPop ==
    ASSUME NEW r \in Record, NEW W, NEW words \in Seq(W),
           NEW values \in [General -> Values], NEW place \in General, NEW after,
           Kept(r, words, place, values), Len(words) = Base(r) + Above(place),
           Above(place) = Offset(place), Above(after) = Above(place) - 1,
           NEW others, others = Front(words),
           NEW now, now = [values EXCEPT ![place] = Last(words)]
    PROVE  Popped(r, W, words, after, others, now)
<1> DEFINE n == Base(r) + Above(after)
<1>1. /\ Base(r) \in Nat /\ Above(place) \in 7 .. 11 /\ Above(after) \in 3 .. 11
      /\ \A g \in General : Offset(g) \in 7 .. 11
  BY BaseIs, AboveRange, OffsetIs
<1>2. n \in Nat /\ Len(words) = n + 1 /\ n >= Base(r) + 6
  BY <1>1
<1>3. /\ others \in Seq(W) /\ Len(others) = n
      /\ \A i \in 1 .. n : others[i] = words[i]
      /\ Last(words) = words[n + 1]
  BY <1>2, LastAndFront
<1>4. n + 1 = Base(r) + Offset(place)
  BY <1>1
<1>5. Last(words) = r.regs[place]
  <2>1. words[Base(r) + Offset(place)] = r.regs[place]
    BY <1>1 DEF Kept
  <2> QED
    BY <1>3, <1>4, <2>1
<1>6. r.regs \in [General -> Values]
  BY DEF Record
<1>7. now \in [General -> Values] /\ now[place] = r.regs[place]
      /\ \A g \in General \ {place} : now[g] = values[g]
  BY <1>5, <1>6
<1>8. \A g \in General : g # place => Offset(g) # Offset(place)
  BY GeneralIs, OffsetIs
<1> HIDE DEF n
<1>9. ASSUME NEW g \in General
      PROVE  IF Offset(g) <= Above(after)
             THEN others[Base(r) + Offset(g)] = r.regs[g]
             ELSE now[g] = r.regs[g]
  <2>1. CASE g = place
    BY <1>1, <1>7, <2>1
  <2>2. CASE g # place
    <3>1. IF Offset(g) <= Above(place)
          THEN words[Base(r) + Offset(g)] = r.regs[g]
          ELSE values[g] = r.regs[g]
      BY DEF Kept
    <3>2. Offset(g) <= Above(place) => Offset(g) <= Above(after)
      BY <1>1, <1>8, <2>2
    <3>3. Offset(g) <= Above(after) =>
             /\ Offset(g) <= Above(place)
             /\ others[Base(r) + Offset(g)] = words[Base(r) + Offset(g)]
      <4>1. SUFFICES ASSUME Offset(g) <= Above(after)
                     PROVE  /\ Offset(g) <= Above(place)
                            /\ Base(r) + Offset(g) \in 1 .. n
        BY <1>3
      <4>2. /\ Base(r) \in Nat /\ Above(place) \in Int /\ Above(after) \in Int
            /\ Offset(g) \in Nat \ {0} /\ Above(after) = Above(place) - 1
        BY <1>1
      <4> QED
        BY <4>1, <4>2 DEF n
    <3> QED
      BY <1>7, <2>2, <3>1, <3>2, <3>3
  <2> QED
    BY <2>1, <2>2
<1>10. /\ words[Base(r) + 1] = r.interrupts /\ words[Base(r) + 2] = r.user
       /\ words[Base(r) + 3] = r.at
       /\ words[Base(r) + 6] = Base(r) + 5
  BY <1>1 DEF Kept
<1>11. /\ others[Base(r) + 1] = words[Base(r) + 1]
       /\ others[Base(r) + 2] = words[Base(r) + 2]
       /\ others[Base(r) + 3] = words[Base(r) + 3]
       /\ others[Base(r) + 6] = words[Base(r) + 6]
       /\ \A i \in 1 .. Base(r) + 3 : others[i] = words[i]
  BY <1>1, <1>2, <1>3
<1>12. Above(after) # 11
  BY <1>1
<1>13. Kept(r, others, after, now)
  BY <1>9, <1>10, <1>11, <1>12 DEF Kept
<1> QED
  BY <1>3, <1>7, <1>11, <1>13 DEF n, Popped

----------------------------------------------------------------------------
(* The instructions of handler and stub. *)

Untouched(n) == \A i \in 1 .. n : stack'[i] = stack[i]

LEMMA PopPlaces ==
    ASSUME Pop
    PROVE  /\ at \in General
           /\ Above(at) = Offset(at) /\ Above(at') = Above(at) - 1
           /\ at' \in InStub \ {"handler", "wait"}
<1>1. /\ Len(Pops) = 5 /\ DOMAIN Pops = 1 .. 5
      /\ Pops[1] = "eax" /\ Pops[2] = "ebx" /\ Pops[3] = "ecx"
      /\ Pops[4] = "edx" /\ Pops[5] = "ebp"
  BY DEF Pops
<1>2. PICK k \in 1 .. 5 : at = Pops[k] /\ at' = IF k = 5 THEN "esp" ELSE Pops[k + 1]
  BY <1>1 DEF Pop
<1>3. \/ at = "eax" /\ at' = "ebx"
      \/ at = "ebx" /\ at' = "ecx"
      \/ at = "ecx" /\ at' = "edx"
      \/ at = "edx" /\ at' = "ebp"
      \/ at = "ebp" /\ at' = "esp"
  BY <1>1, <1>2
<1>4. /\ Above("ebx") = Above("eax") - 1 /\ Above("ecx") = Above("ebx") - 1
      /\ Above("edx") = Above("ecx") - 1 /\ Above("ebp") = Above("edx") - 1
      /\ Above("esp") = Above("ebp") - 1
  BY DEF Above
<1>5. /\ Above("eax") = Offset("eax") /\ Above("ebx") = Offset("ebx")
      /\ Above("ecx") = Offset("ecx") /\ Above("edx") = Offset("edx")
      /\ Above("ebp") = Offset("ebp")
  BY DEF Above, Offset
<1>6. Above(at) = Offset(at) /\ Above(at') = Above(at) - 1
  BY <1>3, <1>4, <1>5, Zenon
<1>7. at \in General /\ at' \in InStub \ {"handler", "wait"}
  BY ONLY <1>3, GeneralIs DEF InStub
<1> QED
  BY <1>6, <1>7

LEMMA ClobberTyped ==
    ASSUME regs \in [General -> Values], Clobber
    PROVE  regs' \in [General -> Values]
<1>1. PICK values \in [{"eax", "ecx", "edx"} -> Values] :
        regs' = [r \in General |-> IF r \in DOMAIN values THEN values[r] ELSE regs[r]]
  BY DEF Clobber
<1> QED
  BY <1>1

\* While handler and stub of an interrupt run, what it interrupted is kept.
LEMMA StubStep ==
    ASSUME Typed, NEW r, Handling(r), Handler \/ Wait \/ Pop \/ PopEsp \/ AddEsp
    PROVE  /\ Handling(r)' /\ Untouched(Base(r) + 3)
           /\ stack' \in Seq(Words) /\ regs' \in [General -> Values]
           /\ at' # "handler"
<1>1. /\ r \in Record /\ r.interrupts = TRUE /\ at \in InStub
      /\ Len(stack) = Base(r) + Above(at) /\ Kept(r, stack, at, regs)
      /\ stack \in Seq(Words) /\ regs \in [General -> Values]
  BY DEF Handling, Typed
<1>2. ~user /\ user' = user
  BY DEF Handling, Handler, Wait, Pop, PopEsp, AddEsp
<1>3. Base(r) \in Nat
  BY <1>1, BaseIs
<1>4. CASE Handler \/ Wait
  <2>1. /\ stack' = stack /\ regs' \in [General -> Values]
        /\ at \in {"handler", "wait"} /\ at' \in {"wait", "eax"}
    BY <1>1, <1>4, ClobberTyped DEF Handler, Wait, Pops
  <2>2. Above(at) = 11 /\ Above(at') = 11 /\ at' \in InStub /\ at' # "handler"
    BY <2>1, AboveIs DEF InStub
  <2>3. Kept(r, stack', at', regs')
    BY <1>1, <2>1, <2>2, OffsetIs DEF Kept
  <2> QED
    BY <1>1, <1>2, <2>1, <2>2, <2>3 DEF Handling, Untouched
<1>5. CASE Pop
  <2>1. /\ at \in General /\ Above(at) = Offset(at) /\ Above(at') = Above(at) - 1
        /\ at' \in InStub /\ at' # "handler"
    BY <1>5, PopPlaces
  <2>2. stack' = Front(stack) /\ regs' = [regs EXCEPT ![at] = Last(stack)]
    BY <1>5 DEF Pop
  <2>3. /\ Kept(r, stack', at', regs') /\ stack' \in Seq(Words)
        /\ Len(stack') = Base(r) + Above(at') /\ regs' \in [General -> Values]
        /\ Untouched(Base(r) + 3)
    <3>1. /\ Len(stack) = Base(r) + Above(at) /\ stack \in Seq(Words)
          /\ regs \in [General -> Values] /\ at \in General
          /\ Kept(r, stack, at, regs) /\ r \in Record
          /\ Above(at) = Offset(at) /\ Above(at') = Above(at) - 1
      BY <1>1, <2>1, Zenon
    <3>2. Popped(r, Words, stack, at', stack', regs')
      BY ONLY <2>2, <3>1, KeptPop, Zenon
    <3> QED
      BY <3>2, Zenon DEF Popped, Untouched
  <2> QED
    BY <1>1, <1>2, <2>1, <2>3 DEF Handling
<1>6. CASE PopEsp \/ AddEsp
  <2>1. /\ regs' = regs
        /\ at' \in InStub /\ at' # "handler"
        /\ Above(at) <= 6 /\ Above(at') <= Above(at) /\ Above(at') \in 3 .. 11
    <3>1. \/ at = "esp" /\ at' = "add esp"
          \/ at = "add esp" /\ at' = "sti"
      BY <1>6 DEF PopEsp, AddEsp
    <3>2. /\ Above("esp") <= 6 /\ Above("add esp") <= 6
          /\ Above("add esp") <= Above("esp") /\ Above("sti") <= Above("add esp")
      BY DEF Above
    <3>3. Above(at) <= 6 /\ Above(at') <= Above(at)
      BY <3>1, <3>2, Zenon
    <3>4. at' \in InStub /\ at' # "handler"
      BY ONLY <3>1 DEF InStub
    <3>5. regs' = regs
      BY <1>6 DEF PopEsp, AddEsp
    <3> QED
      BY <3>3, <3>4, <3>5, AboveRange
  <2>2. stack' = SubSeq(stack, 1, Base(r) + Above(at'))
    <3>1. CASE PopEsp
      <4>1. /\ at = "esp" /\ at' = "add esp"
            /\ stack' = SubSeq(stack, 1, Last(stack))
        BY <3>1 DEF PopEsp
      <4>2. Above(at) = 6 /\ Above(at') = 5
        BY <4>1, AboveIs, Zenon
      <4>3. Last(stack) = stack[Base(r) + 6]
        <5>1. Len(stack) = (Base(r) + 5) + 1 /\ Base(r) + 5 \in Nat
          BY <1>1, <1>3, <4>2
        <5>2. Last(stack) = stack[(Base(r) + 5) + 1]
          BY <1>1, <5>1, LastAndFront, Zenon
        <5>3. (Base(r) + 5) + 1 = Base(r) + 6
          BY <1>3
        <5> QED
          BY <5>2, <5>3, Zenon
      <4>4. stack[Base(r) + 6] = Base(r) + 5
        BY <1>1, <4>2 DEF Kept
      <4> QED
        BY <4>1, <4>2, <4>3, <4>4, Zenon
    <3>2. CASE AddEsp
      <4>1. /\ at = "add esp" /\ at' = "sti"
            /\ stack' = SubSeq(stack, 1, Len(stack) - 2)
        BY <3>2 DEF AddEsp
      <4>2. Len(stack) - 2 = Base(r) + Above(at')
        <5>1. Above(at) = 5 /\ Above(at') = 3
          BY <4>1, AboveIs, Zenon
        <5> QED
          BY <1>1, <1>3, <5>1
      <4> QED
        BY <4>1, <4>2, Zenon
    <3> QED
      BY <1>6, <3>1, <3>2
  <2>3. /\ stack' \in Seq(Words) /\ Len(stack') = Base(r) + Above(at')
        /\ \A i \in 1 .. Base(r) + Above(at') : stack'[i] = stack[i]
    <3>1. Base(r) + Above(at') \in Nat /\ Base(r) + Above(at') <= Len(stack)
      <4>1. Len(stack) = Base(r) + Above(at) /\ Above(at') \in 3 .. 11
            /\ Above(at) \in 3 .. 11 /\ Above(at') <= Above(at)
        BY <1>1, <2>1, AboveRange, Zenon
      <4> QED
        BY <1>3, <4>1
    <3> QED
      BY <1>1, <2>2, <3>1, Shortened, Zenon
  <2>4. Kept(r, stack, at', regs)
    BY <1>1, <2>1, KeptShorter
  <2>5. Kept(r, stack', at', regs)
    BY <1>1, <2>3, <2>4, KeptElsewhere
  <2>6. Untouched(Base(r) + 3)
    BY <1>3, <2>1, <2>3 DEF Untouched
  <2> QED
    BY <1>1, <1>2, <2>1, <2>3, <2>5, <2>6 DEF Handling
<1> QED
  BY <1>4, <1>5, <1>6

----------------------------------------------------------------------------
(* An interrupt comes. *)

Entered(W, base, n, a, b, c, e, saved, st) ==
    /\ st \in Seq(W) /\ Len(st) = n + 11
    /\ \A i \in 1 .. n : st[i] = base[i]
    /\ st[n + 1] = a /\ st[n + 2] = b /\ st[n + 3] = c
    /\ st[n + 5] = e /\ st[n + 6] = n + 5
    /\ \A k \in 1 .. 5 : st[n + 6 + k] = saved[k]

LEMMA EnteredShape ==
    ASSUME NEW W, Nat \subseteq W, NEW base \in Seq(W), NEW n, n = Len(base),
           NEW a \in W, NEW b \in W, NEW c \in W, NEW d \in W, NEW e \in W,
           NEW entry,
           \/ entry = ((base \o <<a, b, c>>) \o <<d>>) \o <<e>>
           \/ entry = ((base \o <<a, b, c>>) \o <<>>) \o <<d, e>>,
           NEW saved \in Seq(W), Len(saved) = 5,
           NEW st, st = (entry \o <<Len(entry)>>) \o saved
    PROVE  Entered(W, base, n, a, b, c, e, saved, st)
<1>1. Frame(W, base, a, b, c, e, entry)
  BY EntryShape, Zenon
<1>2. n \in Nat /\ Len(entry) = n + 5 /\ entry \in Seq(W)
  BY <1>1 DEF Frame
<1>3. Len(entry) \in W
  BY <1>2
<1>4. Whole(W, entry, saved, st)
  BY <1>2, <1>3, StackShape, Zenon
<1>5. /\ st \in Seq(W) /\ Len(st) = n + 11
      /\ \A i \in 1 .. n + 5 : st[i] = entry[i]
      /\ st[n + 6] = n + 5
      /\ \A k \in 1 .. 5 : st[n + 6 + k] = saved[k]
  BY ONLY <1>2, <1>4 DEF Whole
<1>6. /\ \A i \in 1 .. n : entry[i] = base[i]
      /\ entry[n + 1] = a /\ entry[n + 2] = b
      /\ entry[n + 3] = c /\ entry[n + 5] = e
  BY ONLY <1>1, n = Len(base), Zenon DEF Frame
<1>7. \A i \in 1 .. n : st[i] = base[i]
  BY ONLY <1>2, <1>5, <1>6
<1>8. st[n + 1] = entry[n + 1] /\ st[n + 2] = entry[n + 2]
      /\ st[n + 3] = entry[n + 3] /\ st[n + 5] = entry[n + 5]
  BY ONLY <1>2, <1>5
<1> QED
  BY ONLY <1>5, <1>6, <1>7, <1>8, Zenon DEF Entered

LEMMA KeptNew ==
    ASSUME NEW r \in Record, NEW st, NEW values,
           st[Base(r) + 1] = r.interrupts, st[Base(r) + 2] = r.user,
           st[Base(r) + 3] = r.at, st[Base(r) + 5] = r.number,
           st[Base(r) + 6] = Base(r) + 5,
           \A k \in 1 .. 5 : st[Base(r) + 6 + k] = r.regs[Pushes[k]]
    PROVE  Kept(r, st, "handler", values)
<1>1. Above("handler") = 11 /\ Base(r) \in Nat
  BY AboveIs, BaseIs
<1>2. /\ st[Base(r) + 7] = r.regs["ebp"] /\ st[Base(r) + 8] = r.regs["edx"]
      /\ st[Base(r) + 9] = r.regs["ecx"] /\ st[Base(r) + 10] = r.regs["ebx"]
      /\ st[Base(r) + 11] = r.regs["eax"]
  BY <1>1 DEF Pushes
<1>3. \A g \in General : Offset(g) <= 11 /\ st[Base(r) + Offset(g)] = r.regs[g]
  BY <1>2, GeneralIs, OffsetIs
<1> QED
  BY <1>1, <1>3 DEF Kept

\* What an interrupt is remembered by.
Remembered(number) ==
    [regs |-> regs, height |-> IF user THEN 0 ELSE Len(stack), user |-> user,
     interrupts |-> interrupts, at |-> at, number |-> number]

Remembers(r, a, h, b, c, d, n) ==
    /\ r \in Record
    /\ r.regs = a /\ r.height = h /\ r.user = b
    /\ r.interrupts = c /\ r.at = d /\ r.number = n

LEMMA Projections ==
    ASSUME NEW a \in [General -> Values], NEW h \in Nat, NEW b \in BOOLEAN,
           NEW c \in BOOLEAN, NEW d \in Places, NEW n \in Numbers, NEW r,
           r = [regs |-> a, height |-> h, user |-> b,
                interrupts |-> c, at |-> d, number |-> n]
    PROVE  Remembers(r, a, h, b, c, d, n)
BY DEF Record, Remembers

LEMMA RememberedIs ==
    ASSUME Typed, NEW number \in Numbers
    PROVE  /\ Remembered(number) \in Record
           /\ Remembered(number).user = user
           /\ Remembered(number).at = at
           /\ Remembered(number).regs = regs
           /\ Remembered(number).interrupts = interrupts
           /\ Remembered(number).number = number
           /\ user => Remembered(number).height = 0 /\ Base(Remembered(number)) = 2
           /\ ~user => /\ Remembered(number).height = Len(stack)
                       /\ Base(Remembered(number)) = Len(stack)
<1>1. PICK h : h = IF user THEN 0 ELSE Len(stack)
  OBVIOUS
<1>2. Len(stack) \in Nat
  BY DEF Typed
<1>3. h \in Nat /\ (user => h = 0) /\ (~user => h = Len(stack))
  BY <1>1, <1>2
<1>4. Remembered(number) = [regs |-> regs, height |-> h, user |-> user,
                            interrupts |-> interrupts, at |-> at, number |-> number]
  BY <1>1 DEF Remembered
<1>5. /\ regs \in [General -> Values] /\ h \in Nat /\ user \in BOOLEAN
      /\ interrupts \in BOOLEAN /\ at \in Places /\ number \in Numbers
  BY <1>3 DEF Typed
<1>6. /\ Remembered(number) \in Record
      /\ Remembered(number).user = user
      /\ Remembered(number).at = at
      /\ Remembered(number).regs = regs
      /\ Remembered(number).interrupts = interrupts
      /\ Remembered(number).number = number
      /\ Remembered(number).height = h
  <2>1. Remembers(Remembered(number), regs, h, user, interrupts, at, number)
    BY ONLY <1>4, <1>5, Projections, Zenon
  <2> QED
    BY <2>1, Zenon DEF Remembers
<1> QED
  BY <1>3, <1>6, Zenon DEF Base

LEMMA WordsHold ==
    /\ BOOLEAN \subseteq Words /\ Places \subseteq Words /\ Nat \subseteq Words
    /\ Numbers \subseteq Words /\ Values \subseteq Words
    /\ "ss" \in Words /\ "user esp" \in Words /\ "error code" \in Words /\ "0" \in Words
BY Zenon DEF Words

LEMMA EnterStep ==
    ASSUME Typed, NEW number \in Numbers, Enter(number), interrupts = TRUE,
           NEW r, r = Remembered(number)
    PROVE  /\ interrupted' = Append(interrupted, r)
           /\ Handling(r)' /\ (~user => Untouched(Len(stack)))
           /\ stack' \in Seq(Words) /\ regs' \in [General -> Values]
           /\ at' = "handler" /\ interrupts' = FALSE /\ user' = FALSE
<1>1. /\ interrupted' = Append(interrupted, r) /\ at' = "handler" /\ interrupts' = FALSE
      /\ user' = FALSE /\ regs' = regs
  BY Zenon DEF Enter, Remembered
<1>2. PICK base \in Seq(Words) :
         /\ base = IF user THEN <<"ss", "user esp">> ELSE stack
         /\ Len(base) = Base(r)
         /\ ~user => base = stack
  <2>1. <<"ss", "user esp">> \in Seq(Words) /\ Len(<<"ss", "user esp">>) = 2
    <3>1. "ss" \in Words /\ "user esp" \in Words
      BY WordsHold
    <3> QED
      BY ONLY <3>1, PairShape, Zenon
  <2>2. stack \in Seq(Words)
    BY DEF Typed
  <2> QED
    BY <2>1, <2>2, RememberedIs, Zenon
<1>3. PICK entry : entry = Pushed(number) \o Stub(number)
  OBVIOUS
<1>4. PICK d \in Words :
        \/ entry = ((base \o <<interrupts, user, at>>) \o <<d>>) \o <<number>>
        \/ entry = ((base \o <<interrupts, user, at>>) \o <<>>) \o <<d, number>>
  <2>1. CASE number \in Errors
    BY <1>2, <1>3, <2>1, WordsHold, Zenon DEF Pushed, Stub
  <2>2. CASE number \notin Errors
    BY <1>2, <1>3, <2>2, WordsHold, Zenon DEF Pushed, Stub
  <2> QED
    BY <2>1, <2>2
<1>5. PICK saved : saved = [k \in 1 .. 5 |-> regs[Pushes[k]]]
  OBVIOUS
<1>6. saved \in Seq(Words) /\ Len(saved) = 5 /\ \A k \in 1 .. 5 : saved[k] = regs[Pushes[k]]
  <2>1. regs \in [General -> Values] /\ \A k \in 1 .. 5 : Pushes[k] \in General
    BY GeneralIs DEF Typed, Pushes
  <2>2. \A k \in 1 .. 5 : regs[Pushes[k]] \in Words
    BY <2>1, WordsHold
  <2> QED
    BY <1>5, <2>2
<1>7. stack' = (entry \o <<Len(entry)>>) \o saved
  BY <1>3, <1>5, Zenon DEF Enter
<1>8. interrupts \in Words /\ user \in Words /\ at \in Words /\ number \in Words
  BY WordsHold, Zenon DEF Typed
<1>9. Entered(Words, base, Base(r), interrupts, user, at, number, saved, stack')
  BY ONLY <1>2, <1>4, <1>6, <1>7, <1>8, WordsHold, EnteredShape, base \in Seq(Words), d \in Words, Zenon
<1>10. r \in Record
  BY RememberedIs
<1>11. Kept(r, stack', "handler", regs')
  <2>1. /\ stack'[Base(r) + 1] = r.interrupts /\ stack'[Base(r) + 2] = r.user
        /\ stack'[Base(r) + 3] = r.at /\ stack'[Base(r) + 5] = r.number
        /\ stack'[Base(r) + 6] = Base(r) + 5
    BY <1>2, <1>9, RememberedIs, Zenon DEF Entered
  <2>2. \A k \in 1 .. 5 : stack'[Base(r) + 6 + k] = r.regs[Pushes[k]]
    <3>1. r.regs = regs
      BY RememberedIs
    <3>2. \A k \in 1 .. 5 : stack'[Base(r) + 6 + k] = saved[k]
      BY <1>9, Zenon DEF Entered
    <3> QED
      BY ONLY <1>6, <3>1, <3>2, Zenon
  <2> QED
    BY <1>10, <2>1, <2>2, KeptNew, Zenon
<1>12. Len(stack') = Base(r) + Above("handler") /\ stack' \in Seq(Words)
  BY <1>2, <1>9, AboveIs, Zenon DEF Entered
<1>13. ~user => Untouched(Len(stack))
  BY <1>2, <1>9, Zenon DEF Entered, Untouched
<1>14. r.interrupts = TRUE
  BY RememberedIs, Zenon
<1>15. regs' \in [General -> Values]
  BY <1>1 DEF Typed
<1> QED
  BY <1>1, <1>10, <1>11, <1>12, <1>13, <1>14, <1>15, Zenon DEF Handling, InStub

----------------------------------------------------------------------------
(* And what it interrupted goes on. *)

LEMMA IretStep ==
    ASSUME Typed, NEW r, Handling(r), r.user => r.height = 0, at = "sti", Iret
    PROVE  /\ at' = r.at /\ user' = r.user /\ interrupts' = r.interrupts
           /\ regs = r.regs
           /\ stack' \in Seq(Words) /\ Len(stack') = r.height /\ Untouched(r.height)
<1>1. /\ r \in Record /\ Len(stack) = Base(r) + 3 /\ Kept(r, stack, "sti", regs)
      /\ stack \in Seq(Words) /\ regs \in [General -> Values]
  <2>1. Above(at) = 3
    BY AboveIs, Zenon
  <2> QED
    BY <2>1, Zenon DEF Handling, Typed
<1>2. Base(r) \in Nat
  BY <1>1, BaseIs
<1>3. PICK n : n = Len(stack)
  OBVIOUS
<1>4. n - 0 = Base(r) + 3 /\ n - 1 = Base(r) + 2 /\ n - 2 = Base(r) + 1
  BY <1>1, <1>2, <1>3
<1>5. Word(0) = r.at /\ Word(1) = r.user /\ Word(2) = r.interrupts
  BY <1>1, <1>3, <1>4, Zenon DEF Word, Kept
<1>6. at' = r.at /\ user' = r.user /\ interrupts' = r.interrupts
  BY <1>5, Zenon DEF Iret
<1>7. stack' = SubSeq(stack, 1, r.height)
  <2>1. CASE r.user
    <3>1. stack' = SubSeq(stack, 1, n - 5)
      BY <1>3, <1>5, <2>1, Zenon DEF Iret
    <3>2. Base(r) = 2 /\ r.height = 0
      BY <2>1 DEF Base
    <3>3. n - 5 = 0
      BY <1>1, <1>3, <3>2
    <3> QED
      BY <3>1, <3>2, <3>3, Zenon
  <2>2. CASE ~r.user
    <3>1. stack' = SubSeq(stack, 1, n - 3)
      BY <1>3, <1>5, <2>2, Zenon DEF Iret
    <3>2. Base(r) = r.height
      BY <2>2 DEF Base
    <3>3. n - 3 = Base(r)
      BY <1>1, <1>2, <1>3
    <3> QED
      BY <3>1, <3>2, <3>3, Zenon
  <2> QED
    BY <2>1, <2>2
<1>8. r.height \in Nat /\ r.height <= Len(stack)
  <2>1. r.height \in Nat
    BY <1>1 DEF Record
  <2>2. r.height = 0 \/ r.height = Base(r)
    BY Zenon DEF Base
  <2> QED
    BY <1>1, <1>2, <2>1, <2>2
<1>9. /\ SubSeq(stack, 1, r.height) \in Seq(Words)
      /\ Len(SubSeq(stack, 1, r.height)) = r.height
      /\ \A i \in 1 .. r.height : SubSeq(stack, 1, r.height)[i] = stack[i]
  BY <1>1, <1>8, Shortened
<1>10. stack' \in Seq(Words) /\ Len(stack') = r.height /\ Untouched(r.height)
  BY <1>7, <1>9, Zenon DEF Untouched
<1>11. regs = r.regs
  <2>1. ASSUME NEW g \in General PROVE regs[g] = r.regs[g]
    <3>1. Above("sti") = 3 /\ Offset(g) \in 7 .. 11
      BY AboveIs, OffsetIs
    <3>2. ~(Offset(g) <= Above("sti"))
      BY <3>1
    <3> QED
      BY <1>1, <3>2, Zenon DEF Kept
  <2>2. r.regs \in [General -> Values]
    BY <1>1 DEF Record
  <2> QED
    BY <1>1, <2>1, <2>2
<1> QED
  BY <1>6, <1>10, <1>11

LEMMA FirstOneFacts ==
    ASSUME NEW r, FirstOne(r)
    PROVE  /\ r.user => r.height = 0
           /\ r.height = 0 \/ r.height = 5
           /\ r.interrupts = TRUE
           /\ r.number = SystemCall => r.user
           /\ r.user => Base(r) = 2
BY Zenon DEF FirstOne, Outside, Base

\* The program outside depends on no word above those of its launch.
LEMMA FirstOneKept ==
    ASSUME NEW r \in Record, FirstOne(r), Untouched(Base(r) + 3)
    PROVE  FirstOne(r)'
<1>1. CASE r.at = "launch" /\ ~r.user /\ r.height = 5 /\ stack[3] = TRUE /\ stack[4] = TRUE /\ stack[5] = "user"
  <2>1. Base(r) = 5
    BY <1>1 DEF Base
  <2>2. stack'[3] = stack[3] /\ stack'[4] = stack[4] /\ stack'[5] = stack[5]
    <3>1. 3 \in 1 .. Base(r) + 3 /\ 4 \in 1 .. Base(r) + 3 /\ 5 \in 1 .. Base(r) + 3
      BY ONLY <2>1
    <3> QED
      BY <3>1, Zenon DEF Untouched
  <2> QED
    BY <1>1, <2>2, Zenon DEF FirstOne, Outside
<1>2. CASE ~(r.at = "launch" /\ ~r.user /\ r.height = 5 /\ stack[3] = TRUE /\ stack[4] = TRUE /\ stack[5] = "user")
  BY <1>2, Zenon DEF FirstOne, Outside
<1> QED
  BY <1>1, <1>2

----------------------------------------------------------------------------
(* The invariant. *)

LEMMA HandlerChoice ==
    ASSUME Handler, NEW r, Handling(r)
    PROVE  /\ IntNumber = r.number
           /\ \/ r.number = SystemCall
              \/ at' = "eax" /\ interrupts' = interrupts
<1>1. r \in Record /\ at = "handler" /\ Len(stack) = Base(r) + 11 /\ Kept(r, stack, at, regs)
  <2>1. Above(at) = 11
    BY AboveIs, Zenon DEF Handler
  <2> QED
    BY <2>1, Zenon DEF Handler, Handling
<1>2. PICK n : n = Len(stack)
  OBVIOUS
<1>3. n - 6 = Base(r) + 5
  BY <1>1, <1>2, BaseIs
<1>4. stack[Base(r) + 5] = r.number
  BY <1>1, AboveIs, Zenon DEF Kept
<1>5. IntNumber = r.number
  BY <1>2, <1>3, <1>4, Zenon DEF IntNumber, Word
<1>6. Pops[1] = "eax"
  BY DEF Pops
<1> QED
  BY <1>5, <1>6, Zenon DEF Handler, StubFlag

LEMMA InStubWhen ==
    /\ Handler => at = "handler"
    /\ Wait => at = "wait"
    /\ Handler \/ Wait \/ Pop \/ PopEsp \/ AddEsp =>
          at \in InStub /\ user' = user /\ interrupted' = interrupted
    /\ Pop \/ PopEsp \/ AddEsp =>
          interrupts' = interrupts /\ at' \in InStub \ {"handler", "wait"}
    /\ Wait => interrupts' = interrupts
<1>1. Handler => at = "handler" /\ at \in InStub /\ user' = user /\ interrupted' = interrupted
  BY Zenon DEF Handler, InStub
<1>2. Wait => /\ at = "wait" /\ at \in InStub /\ user' = user /\ interrupted' = interrupted
              /\ interrupts' = interrupts
  BY Zenon DEF Wait, InStub
<1>3. Pop => at \in InStub /\ at' \in InStub \ {"handler", "wait"}
  <2>1. General \subseteq InStub
    BY GeneralIs DEF InStub
  <2> QED
    BY <2>1, PopPlaces
<1>4. Pop => user' = user /\ interrupted' = interrupted /\ interrupts' = interrupts
  BY Zenon DEF Pop
<1>5. PopEsp => at \in InStub /\ at' \in InStub \ {"handler", "wait"}
  BY DEF PopEsp, InStub
<1>6. PopEsp => user' = user /\ interrupted' = interrupted /\ interrupts' = interrupts
  BY Zenon DEF PopEsp
<1>7. AddEsp => at \in InStub /\ at' \in InStub \ {"handler", "wait"}
  BY DEF AddEsp, InStub
<1>8. AddEsp => user' = user /\ interrupted' = interrupted /\ interrupts' = interrupts
  BY Zenon DEF AddEsp
<1> QED
  BY <1>1, <1>2, <1>3, <1>4, <1>5, <1>6, <1>7, <1>8, Zenon

LEMMA OutsideNotInStub ==
    ASSUME NEW place \in InStub, NEW privilege, NEW height, NEW words
    PROVE  ~Outside(place, privilege, height, words)
<1>1. place # "boot" /\ place # "launch" /\ place # "user"
  BY DEF InStub
<1> QED
  BY <1>1, Zenon DEF Outside

LEMMA RecordsAre ==
    ASSUME Typed
    PROVE  /\ Len(interrupted) = 1 => interrupted[1] \in Record
           /\ Len(interrupted) = 2 => interrupted[1] \in Record /\ interrupted[2] \in Record
BY DEF Typed

LEMMA StubInv ==
    ASSUME IInv, Handler \/ Wait \/ Pop \/ PopEsp \/ AddEsp
    PROVE  IInv'
<1>1. Typed
  BY DEF IInv
<1>2. at \in InStub /\ interrupted' = interrupted /\ user' = user
  BY InStubWhen, Zenon
<1>3. ~Level0
  BY <1>2, OutsideNotInStub, Zenon DEF Level0
<1>4. CASE Level1
  <2>1. PICK r \in Record : r = interrupted[1]
    BY <1>1, <1>4, RecordsAre, Zenon DEF Level1
  <2>2. /\ Len(interrupted) = 1 /\ FirstOne(r) /\ Handling(r)
        /\ interrupts \/ at = "wait" => r.number = SystemCall /\ at # "handler"
    BY <1>4, <2>1, Zenon DEF Level1
  <2>3. /\ Handling(r)' /\ Untouched(Base(r) + 3)
        /\ stack' \in Seq(Words) /\ regs' \in [General -> Values] /\ at' # "handler"
    BY <1>1, <2>2, StubStep, Zenon
  <2>4. FirstOne(r)'
    BY <2>2, <2>3, FirstOneKept, Zenon
  <2>5. interrupts' \/ at' = "wait" => r.number = SystemCall
    <3>1. CASE Handler
      BY <2>2, <3>1, HandlerChoice, InStubWhen, Zenon
    <3>2. CASE ~Handler
      BY <2>2, <3>2, InStubWhen, Zenon
    <3> QED
      BY <3>1, <3>2
  <2>6. Level1'
    BY <1>2, <2>1, <2>2, <2>3, <2>4, <2>5, Zenon DEF Level1
  <2>7. Typed'
    <3>1. at' \in Places /\ user' \in BOOLEAN
      BY <1>1, <1>2, <2>3, Zenon DEF Handling, Places, Typed
    <3>2. interrupts' \in BOOLEAN
      BY <1>1, Zenon DEF Typed, Handler, Wait, Pop, PopEsp, AddEsp, StubFlag
    <3> QED
      BY <1>1, <1>2, <2>3, <3>1, <3>2, Zenon DEF Typed
  <2> QED
    BY <2>6, <2>7 DEF IInv
<1>5. CASE Level2
  <2>1. PICK r \in Record, s \in Record : r = interrupted[1] /\ s = interrupted[2]
    BY <1>1, <1>5, RecordsAre, Zenon DEF Level2
  <2>2. /\ Len(interrupted) = 2 /\ FirstOne(r) /\ r.number = SystemCall
        /\ s.at \in InStub \ {"handler"} /\ ~s.user
        /\ s.height = Base(r) + Above(s.at)
        /\ s.number # SystemCall
        /\ Kept(r, stack, s.at, s.regs) /\ Handling(s)
        /\ interrupts = FALSE /\ at # "wait"
    BY <1>5, <2>1, Zenon DEF Level2
  <2>3. /\ Handling(s)' /\ Untouched(Base(s) + 3)
        /\ stack' \in Seq(Words) /\ regs' \in [General -> Values] /\ at' # "handler"
    BY <1>1, <2>2, StubStep, Zenon
  <2>4. Untouched(Base(r) + Above(s.at)) /\ Untouched(Base(r) + 3)
    <3>1. Base(s) = Base(r) + Above(s.at)
      BY <2>2, Zenon DEF Base
    <3>2. Base(r) \in Nat /\ Above(s.at) \in 3 .. 11
      BY BaseIs, AboveRange
    <3>3. /\ 1 .. Base(r) + Above(s.at) \subseteq 1 .. Base(s) + 3
          /\ 1 .. Base(r) + 3 \subseteq 1 .. Base(s) + 3
      BY ONLY <3>1, <3>2
    <3> QED
      BY <2>3, <3>3, Zenon DEF Untouched
  <2>5. FirstOne(r)'
    BY <2>2, <2>4, FirstOneKept, Zenon
  <2>6. Kept(r, stack', s.at, s.regs)
    BY <2>2, <2>4, KeptElsewhere, Zenon DEF Untouched
  <2>7. interrupts' = FALSE /\ at' # "wait"
    <3>1. CASE Handler
      <4>1. at' = "eax" /\ interrupts' = interrupts
        BY <2>2, <3>1, HandlerChoice, Zenon
      <4> QED
        BY <2>2, <4>1
    <3>2. CASE ~Handler
      BY <2>2, <3>2, InStubWhen, Zenon
    <3> QED
      BY <3>1, <3>2
  <2>8. Level2'
    BY <1>2, <2>1, <2>2, <2>3, <2>5, <2>6, <2>7, Zenon DEF Level2
  <2>9. Typed'
    <3>1. at' \in Places /\ user' \in BOOLEAN
      BY <1>1, <1>2, <2>3, Zenon DEF Handling, Places, Typed
    <3> QED
      BY <1>1, <1>2, <2>3, <2>7, <3>1, Zenon DEF Typed
  <2> QED
    BY <2>8, <2>9 DEF IInv
<1> QED
  BY <1>3, <1>4, <1>5 DEF IInv

LEMMA AppendIs ==
    ASSUME NEW W, NEW s \in Seq(W), NEW e \in W, NEW n \in Nat, Len(s) = n
    PROVE  /\ Append(s, e) \in Seq(W) /\ Len(Append(s, e)) = n + 1
           /\ Append(s, e)[n + 1] = e
           /\ \A i \in 1 .. n : Append(s, e)[i] = s[i]
OBVIOUS

Followed(s, e, t) == Len(t) = 2 /\ t[1] = s[1] /\ t[2] = e

LEMMA AppendSecond ==
    ASSUME NEW W, NEW s \in Seq(W), Len(s) = 1, NEW e \in W, NEW t, t = Append(s, e)
    PROVE  Followed(s, e, t)
<1>1. Append(s, e)[Len(s) + 1] = e
  BY Appended, Zenon
<1>2. Len(Append(s, e)) = Len(s) + 1
  BY Appended, Zenon
<1>3. Append(s, e)[1] = s[1]
  OBVIOUS
<1>4. Len(s) + 1 = 2
  OBVIOUS
<1> QED
  BY <1>1, <1>2, <1>3, <1>4, Zenon DEF Followed

\* An interrupt, of a program or of the stub.
LEMMA EnterInv ==
    ASSUME IInv, NEW number \in Numbers, Enter(number), interrupts = TRUE,
           number = SystemCall => user
    PROVE  IInv'
<1>1. Typed
  BY DEF IInv
<1>2. PICK s : s = Remembered(number)
  OBVIOUS
<1>3. /\ interrupted' = Append(interrupted, s)
      /\ Handling(s)' /\ (~user => Untouched(Len(stack)))
      /\ stack' \in Seq(Words) /\ regs' \in [General -> Values]
      /\ at' = "handler" /\ interrupts' = FALSE /\ user' = FALSE
  BY <1>1, <1>2, EnterStep, Zenon
<1>4. /\ s \in Record /\ s.user = user /\ s.at = at /\ s.regs = regs
      /\ s.number = number /\ s.interrupts = TRUE
      /\ user => s.height = 0
      /\ ~user => s.height = Len(stack) /\ Base(s) = Len(stack)
  BY <1>1, <1>2, RememberedIs, Zenon
<1>5. interrupted \in Seq(Record)
  BY <1>1 DEF Typed
<1>6. Typed'
  <2>1. interrupted' \in Seq(Record)
    BY <1>3, <1>4, <1>5
  <2>2. at' \in Places
    BY <1>3, Zenon DEF Places, InStub
  <2> QED
    BY <1>3, <2>1, <2>2, Zenon DEF Typed
<1>7. at' # "wait"
  BY <1>3
<1>8. CASE Level0
  <2>1. interrupted = <<>>
    BY <1>8 DEF Level0
  <2>2. Len(interrupted') = 1 /\ interrupted'[1] = s
    BY <1>3, <2>1
  <2>3. FirstOne(s)'
    <3>1. Outside(at, user, Len(stack), stack)
      BY <1>8 DEF Level0
    <3>2. CASE user
      BY <1>4, <3>1, <3>2, Zenon DEF FirstOne, Outside
    <3>3. CASE ~user /\ at = "launch"
      <4>1. Len(stack) = 5 /\ stack[3] = TRUE /\ stack[4] = TRUE /\ stack[5] = "user"
        BY <3>1, <3>3 DEF Outside
      <4>2. 3 \in 1 .. Len(stack) /\ 4 \in 1 .. Len(stack) /\ 5 \in 1 .. Len(stack)
        BY ONLY <4>1
      <4>3. stack'[3] = TRUE /\ stack'[4] = TRUE /\ stack'[5] = "user"
        BY <1>3, <3>3, <4>1, <4>2, Zenon DEF Untouched
      <4> QED
        BY <1>4, <3>3, <4>1, <4>3, Zenon DEF FirstOne, Outside
    <3>4. CASE ~user /\ at # "launch"
      BY <1>4, <3>1, <3>4, Zenon DEF FirstOne, Outside
    <3> QED
      BY <3>2, <3>3, <3>4
  <2>4. Level1'
    BY <1>3, <1>7, <2>2, <2>3, Zenon DEF Level1
  <2> QED
    BY <1>6, <2>4 DEF IInv
<1>9. CASE Level1
  <2>1. PICK r \in Record : r = interrupted[1]
    BY <1>1, <1>9, RecordsAre, Zenon DEF Level1
  <2>2. /\ Len(interrupted) = 1 /\ FirstOne(r) /\ Handling(r)
        /\ r.number = SystemCall /\ at # "handler"
    BY <1>9, <2>1, Zenon DEF Level1
  <2>3. ~user /\ at \in InStub /\ Kept(r, stack, at, regs)
        /\ Len(stack) = Base(r) + Above(at)
    BY <2>2, Zenon DEF Handling
  <2>4. Len(interrupted') = 2 /\ interrupted'[1] = r /\ interrupted'[2] = s
    <3>1. Len(interrupted) = 1 /\ interrupted \in Seq(Record) /\ s \in Record
      BY <1>4, <1>5, <2>2
    <3>2. Followed(interrupted, s, interrupted')
      BY ONLY <1>3, <3>1, AppendSecond, Zenon
    <3> QED
      BY <2>1, <3>2, Zenon DEF Followed
  <2>5. Untouched(Base(r) + Above(at)) /\ Untouched(Base(r) + 3)
    <3>1. Untouched(Len(stack))
      BY <1>3, <2>3
    <3>2. Base(r) \in Nat /\ Above(at) \in 3 .. 11
      BY BaseIs, AboveRange
    <3>3. 1 .. Base(r) + 3 \subseteq 1 .. Len(stack)
      BY ONLY <2>3, <3>2
    <3> QED
      BY <2>3, <3>1, <3>3, Zenon DEF Untouched
  <2>6. FirstOne(r)' /\ Kept(r, stack', at, regs)
    BY <2>2, <2>3, <2>5, FirstOneKept, KeptElsewhere, Zenon DEF Untouched
  <2>7. s.number # SystemCall /\ ~s.user /\ s.at \in InStub \ {"handler"}
        /\ s.height = Base(r) + Above(s.at)
        /\ Kept(r, stack', s.at, s.regs)
    BY <1>4, <2>2, <2>3, <2>6, Zenon
  <2>8. Level2'
    BY <1>3, <1>7, <2>2, <2>4, <2>6, <2>7, Zenon DEF Level2
  <2> QED
    BY <1>6, <2>8 DEF IInv
<1>10. CASE Level2
  BY <1>10, Zenon DEF Level2
<1> QED
  BY <1>8, <1>9, <1>10 DEF IInv

\* The end of an interrupt.
LEMMA ReturnInv ==
    ASSUME IInv, StiIret
    PROVE  /\ IInv'
           /\ LET was == Last(interrupted)
              IN  /\ regs' = was.regs /\ user' = was.user /\ at' = was.at
                  /\ interrupts' = was.interrupts /\ Len(stack') = was.height
<1>1. /\ Typed /\ at = "sti" /\ Iret /\ interrupted' = Front(interrupted) /\ regs' = regs
      /\ interrupted \in Seq(Record)
  BY DEF IInv, StiIret, Typed
<1>2. at \in InStub
  BY <1>1 DEF InStub
<1>3. ~Level0
  BY <1>2, OutsideNotInStub, Zenon DEF Level0
<1>4. CASE Level1
  <2>1. PICK r \in Record : r = interrupted[1]
    BY <1>1, <1>4, RecordsAre, Zenon DEF Level1
  <2>2. Len(interrupted) = 1 /\ FirstOne(r) /\ Handling(r)
    BY <1>4, <2>1, Zenon DEF Level1
  <2>3. /\ at' = r.at /\ user' = r.user /\ interrupts' = r.interrupts
        /\ regs = r.regs
        /\ stack' \in Seq(Words) /\ Len(stack') = r.height /\ Untouched(r.height)
    <3>1. r.user => r.height = 0
      BY <2>2, FirstOneFacts, Zenon
    <3> QED
      BY <1>1, <2>2, <3>1, IretStep, Zenon
  <2>4. Last(interrupted) = r /\ interrupted' = <<>> /\ interrupted' \in Seq(Record)
    BY <1>1, <2>1, <2>2 DEF Last, Front
  <2>5. r.at \in Places /\ r.user \in BOOLEAN /\ r.regs \in [General -> Values]
    BY DEF Record
  <2>6. r.interrupts = TRUE
    BY <2>2 DEF Handling
  <2>7. Typed'
    BY <1>1, <2>3, <2>4, <2>5, <2>6, Zenon DEF Typed
  <2>8. Outside(r.at, r.user, r.height, stack')
    <3>1. Outside(r.at, r.user, r.height, stack)
      BY <2>2 DEF FirstOne
    <3>2. CASE r.at = "launch"
      <4>1. r.height = 5 /\ stack[3] = TRUE /\ stack[4] = TRUE /\ stack[5] = "user" /\ ~r.user
        BY <3>1, <3>2 DEF Outside
      <4>2. 3 \in 1 .. r.height /\ 4 \in 1 .. r.height /\ 5 \in 1 .. r.height
        BY ONLY <4>1
      <4>3. stack'[3] = TRUE /\ stack'[4] = TRUE /\ stack'[5] = "user"
        BY <2>3, <4>1, <4>2, Zenon DEF Untouched
      <4> QED
        BY <3>2, <4>1, <4>3, Zenon DEF Outside
    <3>3. CASE r.at # "launch"
      BY <3>1, <3>3, Zenon DEF Outside
    <3> QED
      BY <3>2, <3>3
  <2>9. Level0'
    BY <2>3, <2>4, <2>6, <2>8, Zenon DEF Level0
  <2> QED
    BY <1>1, <2>3, <2>4, <2>7, <2>9, Zenon DEF IInv
<1>5. CASE Level2
  <2>1. PICK r \in Record, s \in Record : r = interrupted[1] /\ s = interrupted[2]
    BY <1>1, <1>5, RecordsAre, Zenon DEF Level2
  <2>2. /\ Len(interrupted) = 2 /\ FirstOne(r) /\ r.number = SystemCall
        /\ s.at \in InStub \ {"handler"} /\ ~s.user
        /\ s.height = Base(r) + Above(s.at)
        /\ Kept(r, stack, s.at, s.regs) /\ Handling(s)
    BY <1>5, <2>1, Zenon DEF Level2
  <2>3. /\ at' = s.at /\ user' = s.user /\ interrupts' = s.interrupts
        /\ regs = s.regs
        /\ stack' \in Seq(Words) /\ Len(stack') = s.height /\ Untouched(s.height)
    BY <1>1, <2>2, IretStep, Zenon
  <2>4. /\ Last(interrupted) = s /\ Len(interrupted') = 1 /\ interrupted'[1] = r
        /\ interrupted' \in Seq(Record)
    BY <1>1, <2>1, <2>2 DEF Last, Front
  <2>5. s.at \in Places /\ s.user \in BOOLEAN /\ s.regs \in [General -> Values]
    BY DEF Record
  <2>6. s.interrupts = TRUE /\ r.interrupts = TRUE
    BY <2>2, Zenon DEF Handling, FirstOne
  <2>7. Typed'
    BY <1>1, <2>3, <2>4, <2>5, <2>6, Zenon DEF Typed
  <2>8. Untouched(Base(r) + Above(s.at)) /\ Untouched(Base(r) + 3)
    <3>1. Base(r) \in Nat /\ Above(s.at) \in 3 .. 11
      BY BaseIs, AboveRange
    <3>2. 1 .. Base(r) + 3 \subseteq 1 .. Base(r) + Above(s.at)
      BY ONLY <3>1
    <3> QED
      BY <2>2, <2>3, <3>2, Zenon DEF Untouched
  <2>9. FirstOne(r)' /\ Kept(r, stack', s.at, s.regs)
    BY <2>2, <2>8, FirstOneKept, KeptElsewhere, Zenon DEF Untouched
  <2>10. Handling(r)'
    BY <1>1, <2>2, <2>3, <2>6, <2>9, Zenon DEF Handling
  <2>11. Level1'
    BY <2>2, <2>3, <2>4, <2>9, <2>10, Zenon DEF Level1
  <2> QED
    BY <1>1, <2>3, <2>4, <2>7, <2>11, Zenon DEF IInv
<1> QED
  BY <1>3, <1>4, <1>5, Zenon DEF IInv

Launching(W, c, d, e, st) ==
    st \in Seq(W) /\ Len(st) = 5 /\ st[3] = c /\ st[4] = d /\ st[5] = e

LEMMA LaunchWords ==
    ASSUME NEW W, NEW a \in W, NEW b \in W, NEW c \in W, NEW d \in W, NEW e \in W,
           NEW st, st = <<a, b, c, d, e>>
    PROVE  Launching(W, c, d, e, st)
BY DEF Launching

\* The boot, the launch and the user program.
LEMMA OutsideInv ==
    ASSUME IInv, Execute \/ Launch \/ Compute
    PROVE  IInv' /\ interrupted' = interrupted
<1>1. Typed /\ interrupted' = interrupted
  BY Zenon DEF IInv, Execute, Launch, Compute
<1>2. at = "boot" \/ at = "launch" \/ at = "user"
  BY Zenon DEF Execute, Launch, Compute
<1>3. at \notin InStub
  BY <1>2 DEF InStub
<1>4. ~Level1 /\ ~Level2
  BY <1>3, Zenon DEF Level1, Level2, Handling
<1>5. /\ Level0 /\ interrupts = TRUE /\ interrupted = <<>>
      /\ Outside(at, user, Len(stack), stack)
  BY <1>4, Zenon DEF IInv, Level0
<1>6. CASE Execute
  <2>1. /\ at = "boot" /\ at' = "launch" /\ user' = user /\ interrupts' = interrupts
        /\ regs' = regs /\ stack' = <<"ss", "user esp", interrupts, TRUE, "user">>
    BY <1>6, Zenon DEF Execute
  <2>2. ~user
    BY <1>5, <2>1 DEF Outside
  <2>3. /\ "ss" \in Words /\ "user esp" \in Words /\ interrupts \in Words
        /\ TRUE \in Words /\ "user" \in Words
    BY <1>1, WordsHold DEF Typed, Places
  <2>4. /\ stack' \in Seq(Words) /\ Len(stack') = 5
        /\ stack'[3] = interrupts /\ stack'[4] = TRUE /\ stack'[5] = "user"
    <3>1. Launching(Words, interrupts, TRUE, "user", stack')
      BY ONLY <2>1, <2>3, LaunchWords, Zenon
    <3> QED
      BY <3>1, Zenon DEF Launching
  <2>5. Level0'
    BY <1>1, <1>5, <2>1, <2>2, <2>4, Zenon DEF Level0, Outside
  <2>6. at' \in Places
    BY <2>1, Zenon DEF Places
  <2> QED
    BY <1>1, <2>1, <2>4, <2>5, <2>6, Zenon DEF IInv, Typed
<1>7. CASE Launch
  <2>1. at = "launch" /\ Iret /\ regs' = regs
    BY <1>7, Zenon DEF Launch
  <2>2. /\ Len(stack) = 5 /\ stack[3] = TRUE /\ stack[4] = TRUE /\ stack[5] = "user"
    BY <1>5, <2>1 DEF Outside
  <2>3. PICK n : n = Len(stack)
    OBVIOUS
  <2>4. n - 0 = 5 /\ n - 1 = 4 /\ n - 2 = 3 /\ n - 5 = 0
    BY ONLY <2>2, <2>3
  <2>5. Word(0) = "user" /\ Word(1) = TRUE /\ Word(2) = TRUE
    BY <2>2, <2>3, <2>4, Zenon DEF Word
  <2>6. at' = "user" /\ user' = TRUE /\ interrupts' = TRUE /\ stack' = SubSeq(stack, 1, 0)
    <3>1. at' = "user" /\ user' = TRUE /\ interrupts' = TRUE
      BY <2>1, <2>5, Zenon DEF Iret
    <3>2. stack' = SubSeq(stack, 1, n - 5)
      BY <2>1, <2>3, <2>5, Zenon DEF Iret
    <3> QED
      BY <2>4, <3>1, <3>2, Zenon
  <2>7. Len(stack') = 0 /\ stack' \in Seq(Words)
    <3>1. stack \in Seq(Words) /\ 0 \in Nat /\ 0 <= Len(stack)
      BY <1>1, <2>2 DEF Typed
    <3> QED
      BY ONLY <2>6, <3>1, Shortened
  <2>8. Level0'
    BY <1>1, <1>5, <2>6, <2>7, Zenon DEF Level0, Outside
  <2>9. at' \in Places
    BY <2>6, Zenon DEF Places
  <2> QED
    BY <1>1, <2>1, <2>6, <2>7, <2>8, <2>9, Zenon DEF IInv, Typed
<1>8. CASE Compute
  <2>1. /\ at = "user" /\ at' = at /\ user' = user /\ interrupts' = interrupts
        /\ stack' = stack
    BY <1>8, Zenon DEF Compute
  <2>2. regs' \in [General -> Values]
    <3>1. PICK g \in General, v \in Values : regs' = [regs EXCEPT ![g] = v]
      BY <1>8 DEF Compute
    <3>2. regs \in [General -> Values]
      BY <1>1 DEF Typed
    <3> QED
      BY <3>1, <3>2
  <2> QED
    BY <1>1, <1>5, <2>1, <2>2, Zenon DEF IInv, Typed, Level0
<1> QED
  BY <1>1, <1>6, <1>7, <1>8

LEMMA NextInv ==
    ASSUME IInv, Next
    PROVE  /\ IInv'
           /\ StiIret \/ Len(interrupted') >= Len(interrupted)
<1>1. Len(interrupted) \in Nat
  BY DEF IInv, Typed
<1>2. ASSUME NEW number \in Numbers, Enter(number)
      PROVE  Len(interrupted') >= Len(interrupted)
  <2>1. interrupted' = Append(interrupted, Remembered(number))
    BY <1>2, Zenon DEF Enter, Remembered
  <2>2. interrupted \in Seq(Record) /\ Remembered(number) \in Record
    BY RememberedIs, Zenon DEF IInv, Typed
  <2>3. Len(Append(interrupted, Remembered(number))) = Len(interrupted) + 1
    BY <1>1, <2>2, AppendIs
  <2> QED
    BY ONLY <1>1, <2>1, <2>3
<1>3. user => interrupts = TRUE
  BY Zenon DEF IInv, Level0, Level1, Level2, Handling
<1>4. CASE Irq
  <2>1. PICK number \in Numbers : number # SystemCall /\ Enter(number)
    BY <1>4 DEF Irq
  <2>2. interrupts = TRUE
    BY <1>4, Zenon DEF Irq, IInv, Typed
  <2> QED
    BY <1>2, <2>1, <2>2, EnterInv
<1>5. CASE Fault
  <2>1. PICK number \in Errors : Enter(number)
    BY <1>5 DEF Fault
  <2>2. number \in Numbers /\ number # SystemCall /\ user
    BY <1>5, TrapsAssumption DEF Fault
  <2> QED
    BY <1>2, <1>3, <2>1, <2>2, EnterInv
<1>6. CASE Syscall
  <2>1. Enter(SystemCall) /\ user /\ SystemCall \in Numbers
    BY <1>6, TrapsAssumption DEF Syscall
  <2> QED
    BY <1>2, <1>3, <2>1, EnterInv
<1>7. CASE Handler \/ Wait \/ Pop \/ PopEsp \/ AddEsp
  <2>1. interrupted' = interrupted
    BY <1>7, InStubWhen, Zenon
  <2> QED
    BY <1>1, <1>7, <2>1, StubInv
<1>8. CASE StiIret
  BY <1>8, ReturnInv
<1>9. CASE Execute \/ Launch \/ Compute
  <2>1. IInv' /\ interrupted' = interrupted
    BY <1>9, OutsideInv
  <2> QED
    BY <1>1, <2>1
<1> QED
  BY <1>4, <1>5, <1>6, <1>7, <1>8, <1>9, Zenon DEF Next, Kernel

LEMMA InitIInv == Init => IInv
<1> SUFFICES ASSUME Init PROVE IInv
  OBVIOUS
<1>1. regs \in [General -> Values]
  BY DEF Init
<1>2. stack = <<>> /\ interrupted = <<>> /\ at = "boot" /\ user = FALSE /\ interrupts = TRUE
  BY Zenon DEF Init
<1>3. <<>> \in Seq(Words) /\ <<>> \in Seq(Record) /\ Len(<<>>) = 0
  OBVIOUS
<1>4. "boot" \in Places
  BY DEF Places
<1> QED
  BY <1>1, <1>2, <1>3, <1>4, Zenon DEF IInv, Typed, Level0, Outside

LEMMA Inductive == Spec => []IInv
<1>1. IInv /\ UNCHANGED vars => IInv'
  <2> SUFFICES ASSUME IInv, UNCHANGED vars PROVE IInv'
    OBVIOUS
  <2>1. /\ regs' = regs /\ stack' = stack /\ user' = user /\ interrupts' = interrupts
        /\ at' = at /\ faulting' = faulting /\ interrupted' = interrupted
    BY DEF vars
  <2> QED
    BY <2>1, Zenon DEF IInv, Typed, Level0, Level1, Level2, Handling, FirstOne
<1>2. IInv /\ [Next]_vars => IInv'
  BY <1>1, NextInv
<1> QED
  BY InitIInv, <1>2, PTL DEF Spec

----------------------------------------------------------------------------
(* The theorems. *)

LEMMA CpuIs ==
    ASSUME NEW g \in General, NEW n, n = Len(stack)
    PROVE  Cpu[g] = stack[n - (11 - Offset(g))]
<1>1. /\ (CHOOSE j \in 0 .. 4 : Fields[j + 1] = "eax") = 0
      /\ (CHOOSE j \in 0 .. 4 : Fields[j + 1] = "ebx") = 1
      /\ (CHOOSE j \in 0 .. 4 : Fields[j + 1] = "ecx") = 2
      /\ (CHOOSE j \in 0 .. 4 : Fields[j + 1] = "edx") = 3
      /\ (CHOOSE j \in 0 .. 4 : Fields[j + 1] = "ebp") = 4
  BY DEF Fields
<1>2. /\ 11 - Offset("eax") = 0 /\ 11 - Offset("ebx") = 1 /\ 11 - Offset("ecx") = 2
      /\ 11 - Offset("edx") = 3 /\ 11 - Offset("ebp") = 4
  BY DEF Offset
<1>3. Cpu[g] = Word(CHOOSE j \in 0 .. 4 : Fields[j + 1] = g)
  BY Zenon DEF Cpu
<1>4. (CHOOSE j \in 0 .. 4 : Fields[j + 1] = g) = 11 - Offset(g)
  <2>1. g = "eax" \/ g = "ebx" \/ g = "ecx" \/ g = "edx" \/ g = "ebp"
    BY GeneralIs
  <2> QED
    BY ONLY <1>1, <1>2, <2>1, Zenon
<1> QED
  BY <1>3, <1>4, Zenon DEF Word

\* What an interrupt that is in its handler has on the stack.
LEMMA Seen ==
    ASSUME Typed, NEW r, Handling(r), at = "handler"
    PROVE  Cpu = r.regs /\ IntNumber = r.number
<1>1. /\ r \in Record /\ Kept(r, stack, at, regs) /\ Above(at) = 11
      /\ Len(stack) = Base(r) + 11
  <2>1. Above(at) = 11
    BY AboveIs, Zenon
  <2> QED
    BY <2>1, Zenon DEF Handling
<1>2. PICK n : n = Len(stack)
  OBVIOUS
<1>3. Base(r) \in Nat /\ n = Base(r) + 11
  BY <1>1, <1>2, BaseIs
<1>4. IntNumber = r.number
  <2>1. n - 6 = Base(r) + 5
    BY ONLY <1>3
  <2>2. stack[Base(r) + 5] = r.number
    BY <1>1, Zenon DEF Kept
  <2> QED
    BY <1>2, <2>1, <2>2, Zenon DEF IntNumber, Word
<1>5. ASSUME NEW g \in General
      PROVE  Cpu[g] = r.regs[g]
  <2>1. Offset(g) \in 7 .. 11
    BY OffsetIs
  <2>2. n - (11 - Offset(g)) = Base(r) + Offset(g) /\ Offset(g) <= 11
    BY ONLY <1>3, <2>1
  <2>3. stack[Base(r) + Offset(g)] = r.regs[g]
    BY <1>1, <2>2, Zenon DEF Kept
  <2> QED
    BY <1>2, <2>2, <2>3, CpuIs, Zenon
<1>6. Cpu = [g \in General |-> Cpu[g]] /\ r.regs = [g \in General |-> r.regs[g]]
  <2>1. r.regs \in [General -> Values]
    BY <1>1 DEF Record
  <2> QED
    BY <2>1 DEF Cpu
<1>7. Cpu = r.regs
  BY <1>5, <1>6
<1> QED
  BY <1>4, <1>7

\* main_interrupt_handler is given the registers and the number of the
\* interrupt that called it.
THEOREM Seeing == Spec => []HandlerSees
<1>1. IInv => HandlerSees
  <2> SUFFICES ASSUME IInv, at = "handler"
               PROVE  Cpu = Last(interrupted).regs /\ IntNumber = Last(interrupted).number
    BY DEF HandlerSees
  <2>1. Typed /\ at \in InStub /\ interrupted \in Seq(Record)
    BY DEF IInv, Typed, InStub
  <2>2. CASE Level0
    BY <2>1, <2>2, OutsideNotInStub, Zenon DEF Level0
  <2>3. CASE Level1
    <3>1. Last(interrupted) = interrupted[1]
      BY <2>1, <2>3 DEF Level1, Last
    <3> QED
      BY <2>1, <2>3, <3>1, Seen, Zenon DEF Level1
  <2>4. CASE Level2
    <3>1. Last(interrupted) = interrupted[2]
      BY <2>1, <2>4 DEF Level2, Last
    <3> QED
      BY <2>1, <2>4, <3>1, Seen, Zenon DEF Level2
  <2> QED
    BY <2>2, <2>3, <2>4 DEF IInv
<1> QED
  BY Inductive, <1>1, PTL

\* A user program runs on an empty kernel stack, and a system call with one
\* interrupt of it is the most that stack ever holds.
THEOREM Bounded == Spec => []StackBounded
<1>1. IInv => StackBounded
  <2> SUFFICES ASSUME IInv PROVE StackBounded
    OBVIOUS
  <2>1. Typed /\ stack \in Seq(Words) /\ Len(stack) \in Nat
    BY DEF IInv, Typed
  <2>2. CASE Level0
    <3>1. interrupted = <<>> /\ Len(stack) \in {0, 5} /\ (user => Len(stack) = 0)
      BY <2>2, Zenon DEF Level0, Outside
    <3>2. Len(stack) <= 13 + 11 /\ (Len(stack) = 0 => stack = <<>>)
      <4>1. ASSUME Len(stack) = 0 PROVE stack = <<>>
        BY ONLY <2>1, <4>1
      <4>2. Len(stack) = 0 \/ Len(stack) = 5
        BY <3>1, Zenon
      <4>3. Len(stack) <= 13 + 11
        <5>1. 0 <= 13 + 11 /\ 5 <= 13 + 11
          OBVIOUS
        <5> QED
          BY ONLY <4>2, <5>1, Zenon
      <4> QED
        BY <4>1, <4>3
    <3> QED
      BY <3>1, <3>2, Zenon DEF StackBounded
  <2>3. CASE Level1
    <3>1. PICK r \in Record : r = interrupted[1]
      BY <2>1, <2>3, RecordsAre, Zenon DEF Level1
    <3>2. FirstOne(r) /\ ~user /\ Len(stack) = Base(r) + Above(at)
      BY <2>3, <3>1, Zenon DEF Level1, Handling
    <3>3. Base(r) \in {0, 2, 5}
      BY <3>2, Zenon DEF FirstOne, Outside, Base
    <3>4. Above(at) \in 3 .. 11
      BY AboveRange
    <3>5. Len(stack) <= 13 + 11
      BY ONLY <2>1, <3>2, <3>3, <3>4
    <3> QED
      BY <3>2, <3>5 DEF StackBounded
  <2>4. CASE Level2
    <3>1. PICK r \in Record, s \in Record : r = interrupted[1] /\ s = interrupted[2]
      BY <2>1, <2>4, RecordsAre, Zenon DEF Level2
    <3>2. /\ FirstOne(r) /\ r.number = SystemCall /\ ~s.user
          /\ s.height = Base(r) + Above(s.at)
          /\ ~user /\ Len(stack) = Base(s) + Above(at)
      BY <2>4, <3>1, Zenon DEF Level2, Handling
    <3>3. Base(r) = 2 /\ Base(s) = s.height
      BY <3>2, FirstOneFacts, Zenon DEF Base
    <3>4. Above(at) \in 3 .. 11 /\ Above(s.at) \in 3 .. 11
      BY AboveRange
    <3>5. Len(stack) = s.height + Above(at) /\ s.height = 2 + Above(s.at)
      BY ONLY <3>2, <3>3, Zenon
    <3>6. Len(stack) <= 13 + 11
      BY ONLY <3>4, <3>5
    <3> QED
      BY <3>2, <3>6 DEF StackBounded
  <2> QED
    BY <2>2, <2>3, <2>4 DEF IInv
<1> QED
  BY Inductive, <1>1, PTL

\* Whatever an interrupt interrupts, a program or the stub of another interrupt,
\* goes on with its registers, stack, privilege and interrupt flag as they were.
THEOREM GoesOn == Spec => ProgramGoesOn
<1> DEFINE On == Len(interrupted') < Len(interrupted) =>
          LET was == Last(interrupted)
          IN  /\ regs' = was.regs /\ user' = was.user /\ at' = was.at
              /\ interrupts' = was.interrupts /\ Len(stack') = was.height
<1>1. IInv /\ [Next]_vars => [On]_vars
  <2> SUFFICES ASSUME IInv, Next, Len(interrupted') < Len(interrupted) PROVE On
    OBVIOUS
  <2>1. Len(interrupted) \in Nat /\ Len(interrupted') \in Nat
    BY NextInv DEF IInv, Typed
  <2>2. StiIret
    BY <2>1, NextInv
  <2> QED
    BY <2>2, ReturnInv, Zenon
<1> QED
  BY Inductive, <1>1, PTL DEF Spec, ProgramGoesOn
=============================================================================
