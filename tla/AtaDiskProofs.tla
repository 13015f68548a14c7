--------------------------- MODULE AtaDiskProofs ---------------------------
(***************************************************************************)
(* The disk driver keeps blocks, proved for any device, any size of a      *)
(* block, and calls of any length: AtaDisk implements BlockStore, and a    *)
(* device that breaks commands off changes no block but those named.       *)
(***************************************************************************)
EXTENDS AtaDisk, SequenceTheorems, TLAPS

----------------------------------------------------------------------------
(* The inductive invariant. *)

Labels  == {"idle", "start", "command", "busy wait", "ready wait", "words"}
Devices == [phase : {"idle", "late", "busy", "data"}, op : {"read", "write"},
            block : Nat, left : Nat, buffer : Seq(Words)]

IsCall(c) ==
    /\ c \in [op : {"read", "write"}, lba : Blocks, count : 1 .. MaxCount]
    /\ Span(c.lba, c.count) \subseteq Blocks

\* On any device: the ports hold the address of the call when the command is
\* given.
Shape ==
    /\ pc \in Labels
    /\ device \in Devices
    /\ device.phase # "idle" => device.left # 0
    /\ disk \in [Blocks -> Seq(Words)]
    /\ pc # "idle" => IsCall(call)
    /\ pc = "command" => ports = Digits(call.lba)

\* On one that is busy in time: it writes only what is left of the command.
Aimed ==
    "late" \notin faults =>
        /\ device.phase # "late"
        /\ pc = "command" => device.phase # "busy"
        /\ device.op = "write" /\ device.phase \in {"busy", "data"} =>
             Span(device.block, device.left) \subseteq named

\* The device works on the k-th block of the call, counted from 0.
At(k) ==
    /\ device.op = call.op
    /\ device.block = call.lba + k
    /\ device.left = call.count - k

\* It has the last block of a write to store, or nothing to do.
Quiet ==
    \/ device.phase = "idle"
    \/ /\ device.phase = "busy" /\ device.op = "write" /\ device.left = 1
       /\ device.block \in Blocks
       /\ Len(device.buffer) = HALF_BLOCK_SIZE

\* The words of t are those of n blocks of h words, from the first on, and o
\* words of the next.
Copies(t, h, n, o, store, first, last) ==
    /\ t \in Seq(Words) /\ Len(t) = n * h + o
    /\ \A k \in 0 .. last, m \in 1 .. h :
         k * h + m <= n * h + o => t[k * h + m] = store[first + k][m]

\* What has been read so far, and what is left of the block the device offers.
Reading ==
    /\ Copies(target, HALF_BLOCK_SIZE, i, j, disk, call.lba, call.count - 1)
    /\ \/ i = call.count /\ device.phase = "idle"
       \/ /\ i < call.count /\ At(i)
          /\ device.phase = "busy" /\ pc = "busy wait"
       \/ /\ i < call.count /\ At(i)
          /\ device.phase = "data"
          /\ Len(device.buffer) = HALF_BLOCK_SIZE - j
          /\ \A m \in 1 .. (HALF_BLOCK_SIZE - j) :
               device.buffer[m] = disk[call.lba + i][j + m]

\* What has been written so far, and what the device has of the next block.
Writing ==
    /\ target \in [1 .. call.count * HALF_BLOCK_SIZE -> Words]
    /\ \A k \in 0 .. (i - 1), m \in 1 .. HALF_BLOCK_SIZE :
         Stored[call.lba + k][m] = target[k * HALF_BLOCK_SIZE + m]
    /\ \/ i = call.count /\ device.phase = "idle"
       \/ /\ i < call.count /\ At(i)
          /\ \/ device.phase = "busy" /\ pc = "busy wait"
             \/ device.phase = "data"
          /\ Len(device.buffer) = j
          /\ \A m \in 1 .. j : device.buffer[m] = target[i * HALF_BLOCK_SIZE + m]
       \/ /\ i # 0 /\ At(i - 1) /\ pc = "busy wait"
          /\ device.phase = "busy"
          /\ Len(device.buffer) = HALF_BLOCK_SIZE

\* In the loop over the blocks.
UnderWay ==
    /\ i <= call.count
    /\ pc # "busy wait" => i < call.count /\ device.phase = "data"
    /\ call.op = "read" => Reading
    /\ call.op = "write" => Writing

\* Before it, and between calls.
AtRest ==
    /\ i = 0 /\ Quiet
    /\ pc = "command" => device.phase = "idle"
    /\ pc # "idle" => target \in IF call.op = "read" THEN {<<>>}
                              ELSE [1 .. call.count * HALF_BLOCK_SIZE -> Words]

\* On a device without faults: it and the driver are at the same place.
InStep ==
    faults = {} =>
        /\ disk \in [Blocks -> BlockContents]
        /\ i \in Nat /\ j \in 0 .. (HALF_BLOCK_SIZE - 1)
        /\ device.phase = "idle" => device.buffer = <<>>
        /\ pc # "words" => j = 0
        /\ IF pc \in {"idle", "start", "command"} THEN AtRest ELSE UnderWay

IInv == Shape /\ Aimed /\ InStep

----------------------------------------------------------------------------
(* Numbers. *)

LEMMA Divided ==
    ASSUME NEW x \in Nat, NEW b \in Nat \ {0}
    PROVE  /\ x \div b \in Nat /\ x % b \in Nat
           /\ x = (x % b) + b * (x \div b)
OBVIOUS

\* A quotient is below y if the number is below y times the divisor.
LEMMA Below ==
    ASSUME NEW x \in Nat, NEW b \in Nat \ {0}, NEW y \in Nat, x < b * y
    PROVE  x \div b < y
<1> DEFINE q == x \div b
           r == x % b
<1>1. q \in Nat /\ r \in Nat /\ x = r + b * q BY Divided
<1> HIDE DEF q, r
<1>2. SUFFICES ASSUME y <= q PROVE FALSE BY <1>1 DEF q
<1>3. PICK d \in Nat : q = y + d BY <1>1, <1>2
<1>4. b * q = b * y + b * d BY <1>3
<1>5. b * d \in Nat /\ b * y \in Nat OBVIOUS
<1> QED BY <1>1, <1>4, <1>5

LEMMA Remains ==
    ASSUME NEW x \in Nat, NEW b \in Nat \ {0}, x < b
    PROVE  x % b = x
OBVIOUS

\* The device puts the four parts of an address together again.
LEMMA AddressOf ==
    ASSUME NEW lba \in Blocks, ports = Digits(lba)
    PROVE  Address = lba
<1> DEFINE q1 == lba \div Base
           q2 == q1 \div Base
           q3 == q2 \div Base
<1>1. /\ lba \in Nat /\ lba < Base * (Base * (Base * HighBase))
      /\ Base \in Nat \ {0} /\ HighBase \in Nat \ {0}
      /\ Base * HighBase \in Nat /\ Base * (Base * HighBase) \in Nat
  BY DiskAssumption
<1>2. q1 \in Nat /\ lba = (lba % Base) + Base * q1 /\ q1 < Base * (Base * HighBase)
  BY <1>1, Divided, Below
<1>3. ports = <<lba % Base, q1 % Base, q2 % Base, q3 % HighBase>>
  BY DEF Digits
<1> HIDE DEF q1
<1>4. q2 \in Nat /\ q1 = (q1 % Base) + Base * q2 /\ q2 < Base * HighBase
  BY <1>1, <1>2, Divided, Below
<1> HIDE DEF q2
<1>5. q3 \in Nat /\ q2 = (q2 % Base) + Base * q3 /\ q3 < HighBase
  BY <1>1, <1>4, Divided, Below
<1> HIDE DEF q3
<1>6. q3 % HighBase = q3 BY <1>1, <1>5, Remains
<1>7. Address = (lba % Base) + Base * ((q1 % Base) + Base * ((q2 % Base) + Base * q3))
  BY <1>3, <1>6 DEF Address
<1> QED BY <1>2, <1>4, <1>5, <1>7, Zenon

\* Two places in a sequence of blocks are the same only in the same block.
LEMMA Places ==
    ASSUME NEW h \in Nat \ {0}, NEW k \in Nat, NEW l \in Nat,
           NEW m \in 1 .. h, NEW n \in 1 .. h,
           k * h + m <= l * h + n
    PROVE  k <= l /\ (k = l => m <= n)
<1>1. k <= l
  <2>1. SUFFICES ASSUME l < k PROVE FALSE OBVIOUS
  <2>2. PICK d \in Nat : k = l + 1 + d
    <3>1. k - l - 1 \in Nat /\ k = l + 1 + (k - l - 1) BY <2>1
    <3> QED BY <3>1
  <2>3. k * h = l * h + h + d * h BY <2>2
  <2>4. d * h \in Nat /\ l * h \in Nat /\ k * h \in Nat OBVIOUS
  <2> QED BY <2>3, <2>4
<1>2. k = l => m <= n
  <2>1. k * h \in Nat OBVIOUS
  <2> QED BY <2>1
<1> QED BY <1>1, <1>2

\* A place in a block before the n-th lies in the first n * h.
LEMMA Within ==
    ASSUME NEW h \in Nat \ {0}, NEW n \in Nat, NEW k \in Nat, k < n,
           NEW m \in 1 .. h
    PROVE  /\ k * h + m \in 1 .. n * h
           /\ k * h \in Nat /\ n * h \in Nat
           /\ (k + 1) * h = k * h + h /\ k * h + h <= n * h
<1>1. PICK d \in Nat : n = k + 1 + d
  <2>1. n - k - 1 \in Nat /\ n = k + 1 + (n - k - 1) OBVIOUS
  <2> QED BY <2>1
<1>2. n * h = k * h + h + d * h /\ (k + 1) * h = k * h + h BY <1>1
<1>3. d * h \in Nat /\ k * h \in Nat /\ n * h \in Nat OBVIOUS
<1> QED BY <1>2, <1>3

----------------------------------------------------------------------------
(* The shape, on any device. *)

LEMMA DeviceFields ==
    ASSUME NEW d \in Devices
    PROVE  /\ d.phase \in {"idle", "late", "busy", "data"}
           /\ d.op \in {"read", "write"}
           /\ d.block \in Nat /\ d.left \in Nat /\ d.buffer \in Seq(Words)
           /\ d = [phase |-> d.phase, op |-> d.op, block |-> d.block,
                   left |-> d.left, buffer |-> d.buffer]
BY DEF Devices

LEMMA IsDevice ==
    ASSUME NEW p \in {"idle", "late", "busy", "data"}, NEW o \in {"read", "write"},
           NEW b \in Nat, NEW l \in Nat, NEW t \in Seq(Words)
    PROVE  [phase |-> p, op |-> o, block |-> b, left |-> l, buffer |-> t] \in Devices
BY DEF Devices

LEMMA BlockNumbers == Blocks \subseteq Nat
<1>1. PICK top : Blocks \subseteq 0 .. top
  BY DiskAssumption
<1> QED BY <1>1

LEMMA CallFields ==
    ASSUME NEW c, IsCall(c)
    PROVE  /\ c.op \in {"read", "write"} /\ c.lba \in Blocks
           /\ c.count \in Nat \ {0} /\ c.lba \in Nat
           /\ Span(c.lba, c.count) \subseteq Blocks
<1>1. /\ c.op \in {"read", "write"} /\ c.lba \in Blocks
      /\ c.count \in 1 .. MaxCount /\ Span(c.lba, c.count) \subseteq Blocks
  BY DEF IsCall
<1>2. c.count \in Nat \ {0} BY <1>1, DiskAssumption
<1>3. c.lba \in Nat BY <1>1, BlockNumbers
<1> QED BY <1>1, <1>2, <1>3

LEMMA RestingShape == Resting \in Devices
<1>1. <<>> \in Seq(Words) OBVIOUS
<1> QED BY <1>1 DEF Resting, Devices

LEMMA CallShape == Shape /\ Call => Shape'
<1> SUFFICES ASSUME Shape, Call PROVE Shape' OBVIOUS
<1>1. PICK c : c = call' OBVIOUS
<1>2. IsCall(c) BY <1>1 DEF Call, IsCall
<1>3. pc' = "start" /\ UNCHANGED <<device, disk>> BY DEF Call
<1> QED BY <1>1, <1>2, <1>3 DEF Shape, Labels

LEMMA NotIdleShape ==
    ASSUME Shape, pc # "idle", UNCHANGED <<call, disk>>, pc' \in Labels,
           device' \in Devices, device'.phase # "idle" => device'.left # 0,
           pc' = "command" => ports' = Digits(call.lba)
    PROVE  Shape'
BY DEF Shape, IsCall

LEMMA NextPhase ==
    ASSUME Shape, device' \in Devices, device'.phase # "idle" => device'.left # 0,
           disk' \in [Blocks -> Seq(Words)], UNCHANGED <<driverVars, ports>>
    PROVE  Shape'
BY DEF Shape, driverVars, IsCall

\* A block passed on leaves the device with the rest of the command.
LEMMA PassedOn ==
    ASSUME device \in Devices, device.left # 0,
           NEW p \in {"idle", "late", "busy", "data"},
           device' = [Passed EXCEPT !.phase = p]
    PROVE  /\ device' \in Devices
           /\ device'.phase = p /\ device'.op = device.op /\ device'.buffer = <<>>
           /\ device'.block = device.block + 1 /\ device'.left = device.left - 1
<1>1. device' = [phase |-> p, op |-> device.op, block |-> device.block + 1,
                 left |-> device.left - 1, buffer |-> <<>>]
  BY DEF Devices, Passed
<1>2. device.block + 1 \in Nat /\ device.left - 1 \in Nat BY DeviceFields
<1>3. <<>> \in Seq(Words) OBVIOUS
<1>4. device' \in Devices BY <1>1, <1>2, <1>3, DeviceFields DEF Devices
<1> QED BY <1>1, <1>4

\* What the device may do on its own.
LEMMA WorkEffect ==
    ASSUME Shape, Work
    PROVE  /\ device.phase = "busy" /\ device' \in Devices
           /\ device'.phase # "idle" => device'.left # 0
           /\ \/ /\ device.op = "read" /\ device'.op = "read"
                 /\ device.block \in Blocks
                 /\ device'.phase = "data" /\ device'.buffer = disk[device.block]
                 /\ device'.block = device.block /\ device'.left = device.left
                 /\ disk' = disk
              \/ /\ device.op = "write" /\ device'.op = "write"
                 /\ device.buffer = <<>>
                 /\ device'.phase = "data" /\ device'.buffer = <<>>
                 /\ device'.block = device.block /\ device'.left = device.left
                 /\ disk' = disk
              \/ /\ device.op = "write" /\ device'.op = "write"
                 /\ device.buffer # <<>> /\ device.block \in Blocks
                 /\ disk' = [disk EXCEPT ![device.block] = device.buffer]
                 /\ device'.phase = IF device.left = 1 THEN "idle" ELSE "data"
                 /\ device'.block = device.block + 1
                 /\ device'.left = device.left - 1
                 /\ device'.buffer = <<>>
              \/ /\ "errors" \in faults \/ device.block \notin Blocks
                 /\ device' = Resting /\ disk' = disk
<1>0. /\ device.phase = "busy" /\ device \in Devices /\ device.left # 0
      /\ disk \in [Blocks -> Seq(Words)]
  BY DEF Work, Bsy, Shape
<1>1. CASE /\ device.op = "read" /\ device.block \in Blocks
           /\ device' = [device EXCEPT !.phase = "data", !.buffer = disk[device.block]]
           /\ UNCHANGED disk
  <2>1. disk[device.block] \in Seq(Words) BY <1>0, <1>1
  <2> QED BY <1>0, <1>1, <2>1 DEF Devices
<1>2. CASE /\ device.op = "write" /\ device.buffer = <<>>
           /\ device' = [device EXCEPT !.phase = "data"]
           /\ UNCHANGED disk
  BY <1>0, <1>2 DEF Devices
<1>3. CASE /\ device.op = "write" /\ device.buffer # <<>> /\ device.block \in Blocks
           /\ disk' = [disk EXCEPT ![device.block] = device.buffer]
           /\ device' = [Passed EXCEPT !.phase = IF device.left = 1 THEN "idle" ELSE "data"]
  <2>1. PICK p \in {"idle", "late", "busy", "data"} :
          p = IF device.left = 1 THEN "idle" ELSE "data"
    OBVIOUS
  <2>2. /\ device' \in Devices
        /\ device'.phase = p /\ device'.op = device.op /\ device'.buffer = <<>>
        /\ device'.block = device.block + 1 /\ device'.left = device.left - 1
    <3>1. device' = [Passed EXCEPT !.phase = p] BY <1>3, <2>1
    <3> QED BY <1>0, <3>1, PassedOn
  <2>3. p # "idle" => device.left - 1 # 0 BY <2>1
  <2> QED BY <1>0, <1>3, <2>1, <2>2, <2>3
<1>4. CASE /\ "errors" \in faults \/ device.block \notin Blocks
           /\ device' = Resting /\ UNCHANGED disk
  BY <1>0, <1>4, RestingShape DEF Resting
<1> QED BY <1>1, <1>2, <1>3, <1>4 DEF Work

LEMMA WorkShape == Shape /\ Work => Shape'
<1> SUFFICES ASSUME Shape, Work PROVE Shape' OBVIOUS
<1>1. /\ device' \in Devices /\ (device'.phase # "idle" => device'.left # 0)
      /\ \/ disk' = disk
         \/ disk' = [disk EXCEPT ![device.block] = device.buffer]
  BY WorkEffect
<1>2. disk' \in [Blocks -> Seq(Words)]
  <2>1. PICK t \in Seq(Words) : t = device.buffer BY DeviceFields DEF Shape
  <2>2. disk \in [Blocks -> Seq(Words)] BY DEF Shape
  <2> QED BY <1>1, <2>1, <2>2
<1>3. UNCHANGED <<driverVars, ports>> BY DEF Work
<1> QED BY <1>1, <1>2, <1>3, NextPhase

\* What a command does to the device.
LEMMA CommandEffect ==
    ASSUME Shape, Command
    PROVE  /\ device' \in Devices /\ (device'.phase # "idle" => device'.left # 0)
           /\ \/ device.phase = "busy" /\ device' = device
              \/ /\ device.phase # "busy"
                 /\ device'.phase = IF "late" \in faults THEN "late" ELSE "busy"
                 /\ device'.op = call.op /\ device'.block = call.lba
                 /\ device'.left = call.count /\ device'.buffer = <<>>
<1>1. IsCall(call) /\ ports = Digits(call.lba) /\ device \in Devices
  BY DEF Shape, Command
<1>2. /\ call.op \in {"read", "write"} /\ call.lba \in Blocks
      /\ call.count \in Nat \ {0} /\ call.lba \in Nat
  BY <1>1, CallFields
<1>3. Address = call.lba BY <1>1, <1>2, AddressOf
<1>4. CASE Bsy BY <1>1, <1>4 DEF Command, TakeCommand, Bsy, Shape
<1>5. CASE ~Bsy
  <2>1. PICK p \in {"idle", "late", "busy", "data"} :
          p = IF "late" \in faults THEN "late" ELSE "busy"
    OBVIOUS
  <2>2. device' = [phase |-> p, op |-> call.op, block |-> call.lba,
                   left |-> call.count, buffer |-> <<>>]
    BY <1>3, <1>5, <2>1 DEF Command, TakeCommand
  <2>3. <<>> \in Seq(Words) OBVIOUS
  <2>4. device' \in Devices BY <1>2, <2>2, <2>3 DEF Devices
  <2> QED BY <1>2, <1>5, <2>1, <2>2, <2>4 DEF Bsy
<1> QED BY <1>4, <1>5

\* What a word does to the device: it is taken from a block that is offered, or
\* added to one that is asked for, or it is nothing to the device.
LEMMA WordEffect ==
    ASSUME Shape, Word
    PROVE  /\ device' \in Devices /\ (device'.phase # "idle" => device'.left # 0)
           /\ device'.op = device.op
           /\ \/ device' = device
              \/ /\ call.op = "read" /\ device.op = "read" /\ device.phase = "data"
                 /\ Len(device.buffer) > 1
                 /\ device'.phase = "data" /\ device'.buffer = Tail(device.buffer)
                 /\ device'.block = device.block /\ device'.left = device.left
              \/ /\ call.op = "read" /\ device.op = "read" /\ device.phase = "data"
                 /\ ~(Len(device.buffer) > 1)
                 /\ device'.phase = IF device.left = 1 THEN "idle" ELSE "busy"
                 /\ device'.buffer = <<>>
                 /\ device'.block = device.block + 1
                 /\ device'.left = device.left - 1
              \/ /\ call.op = "write" /\ device.op = "write"
                 /\ device.phase = "data"
                 /\ \E word \in Words :
                      /\ word = target[HALF_BLOCK_SIZE * i + j + 1]
                      /\ device'.buffer = Append(device.buffer, word)
                 /\ device'.phase = IF Len(device.buffer) + 1 = HALF_BLOCK_SIZE
                                    THEN "busy" ELSE "data"
                 /\ device'.block = device.block /\ device'.left = device.left
<1>0. device \in Devices /\ IsCall(call) /\ (device.phase # "idle" => device.left # 0)
  BY DEF Word, Shape
<1>1. PICK word \in Words :
        IF call.op = "read"
        THEN InWord(word)
        ELSE word = target[HALF_BLOCK_SIZE * i + j + 1] /\ OutWord(word)
  BY DEF Word
<1>2. CASE call.op = "read"
  <2>1. CASE ~(device.phase = "data" /\ device.op = "read")
    BY <1>0, <1>1, <1>2, <2>1 DEF InWord
  <2>2. CASE device.phase = "data" /\ device.op = "read" /\ Len(device.buffer) > 1
    <3>1. device' = [device EXCEPT !.buffer = Tail(@)]
      BY <1>1, <1>2, <2>2 DEF InWord
    <3>2. Tail(device.buffer) \in Seq(Words)
      <4>1. PICK s \in Seq(Words) : s = device.buffer BY <1>0, DeviceFields
      <4>2. s # <<>> BY <2>2, <4>1
      <4> QED BY <4>1, <4>2, HeadTailProperties
    <3> QED BY <1>0, <1>2, <2>2, <3>1, <3>2 DEF Devices
  <2>3. CASE device.phase = "data" /\ device.op = "read" /\ ~(Len(device.buffer) > 1)
    <3>1. PICK p \in {"idle", "late", "busy", "data"} :
            p = IF device.left = 1 THEN "idle" ELSE "busy"
      OBVIOUS
    <3>2. device' = [Passed EXCEPT !.phase = p]
      BY <1>1, <1>2, <2>3, <3>1 DEF InWord
    <3>3. /\ device' \in Devices
          /\ device'.phase = p /\ device'.op = device.op /\ device'.buffer = <<>>
          /\ device'.block = device.block + 1 /\ device'.left = device.left - 1
      BY <1>0, <2>3, <3>2, PassedOn
    <3>4. p # "idle" => device.left - 1 # 0 BY <3>1
    <3> QED BY <1>2, <2>3, <3>1, <3>3, <3>4
  <2> QED BY <2>1, <2>2, <2>3
<1>3. CASE call.op # "read"
  <2>1. call.op = "write" BY <1>0, <1>3, CallFields
  <2>2. CASE ~(device.phase = "data" /\ device.op = "write")
    BY <1>0, <1>1, <1>3, <2>2 DEF OutWord
  <2>3. CASE device.phase = "data" /\ device.op = "write"
    <3>1. PICK p \in {"idle", "late", "busy", "data"} :
            p = IF Len(device.buffer) + 1 = HALF_BLOCK_SIZE THEN "busy" ELSE "data"
      OBVIOUS
    <3>2. device' = [device EXCEPT !.buffer = Append(@, word), !.phase = p]
      BY <1>1, <1>3, <2>3, <3>1 DEF OutWord
    <3>3. Append(device.buffer, word) \in Seq(Words) BY <1>0, DeviceFields
    <3> QED BY <1>0, <1>1, <1>3, <2>1, <2>3, <3>1, <3>2, <3>3 DEF Devices
  <2> QED BY <2>2, <2>3
<1> QED BY <1>2, <1>3

LEMMA NextShape == Shape /\ [Next]_vars => Shape'
<1> SUFFICES ASSUME Shape, [Next]_vars PROVE Shape' OBVIOUS
<1>1. CASE Call BY <1>1, CallShape
<1>2. CASE SetPorts
  <2>1. /\ pc # "idle" /\ pc' \in Labels /\ ports' = Digits(call.lba)
        /\ UNCHANGED <<call, disk, device>>
    BY <1>2 DEF SetPorts, StartWait, Goto, Labels
  <2> QED BY <2>1, NotIdleShape DEF Shape
<1>3. CASE Command
  BY <1>3, CommandEffect, NotIdleShape DEF Command, Goto, Labels
<1>4. CASE BusyWait \/ ReadyWait
  BY <1>4, NotIdleShape DEF BusyWait, ReadyWait, Goto, Labels, Shape
<1>5. CASE Word
  <2>1. /\ pc = "words" /\ pc' \in {"words", "busy wait"}
        /\ UNCHANGED <<call, disk>>
    BY <1>5 DEF Word, Goto
  <2>2. pc # "idle" /\ pc' \in Labels /\ pc' # "command" BY <2>1 DEF Labels
  <2>3. device' \in Devices /\ (device'.phase # "idle" => device'.left # 0)
    BY <1>5, WordEffect
  <2> QED BY <2>1, <2>2, <2>3, NotIdleShape
<1>6. CASE Return
  BY <1>6 DEF Return, Shape, Labels
<1>7. CASE Notice
  <2>1. /\ device' \in Devices /\ (device'.phase # "idle" => device'.left # 0)
        /\ disk' \in [Blocks -> Seq(Words)]
    BY <1>7 DEF Notice, Shape, Devices
  <2> QED BY <1>7, <2>1, NextPhase DEF Notice
<1>8. CASE Work BY <1>8, WorkShape
<1>9. CASE PowerCycle
  BY <1>9, RestingShape DEF PowerCycle, Shape, Labels, Resting
<1>10. CASE UNCHANGED vars
  BY <1>10, NextPhase DEF vars, Shape
<1> QED BY <1>1, <1>2, <1>3, <1>4, <1>5, <1>6, <1>7, <1>8, <1>9, <1>10
        DEF Next, Driver

----------------------------------------------------------------------------
(* Only what was named is written. *)

LEMMA NextAimed == Shape /\ Aimed /\ [Next]_vars => Aimed'
<1> SUFFICES ASSUME Shape, Aimed, [Next]_vars, "late" \notin faults' PROVE Aimed'
  BY DEF Aimed
<1>0. faults' = faults /\ "late" \notin faults
  BY DEF Next, Driver, Call, SetPorts, Command, BusyWait, ReadyWait, Word, Return,
     Notice, Work, PowerCycle, vars
<1>1. CASE /\ UNCHANGED <<device, named>>
           /\ pc' = "command" => pc = "command" \/ device.phase # "busy"
  BY <1>0, <1>1 DEF Aimed
<1>2. CASE Call \/ BusyWait \/ ReadyWait \/ Return
  BY <1>1, <1>2 DEF Call, BusyWait, ReadyWait, Return, Goto
<1>3. CASE SetPorts BY <1>1, <1>3 DEF SetPorts, StartWait, Bsy, Goto
<1>4. CASE Command
  <2>1. device.phase # "busy" BY <1>0, <1>4 DEF Command, Aimed
  <2>2. /\ device'.phase = "busy" /\ device'.op = call.op
        /\ device'.block = call.lba /\ device'.left = call.count
    BY <1>0, <1>4, <2>1, CommandEffect
  <2>3. call.op = "write" => named' = Span(call.lba, call.count)
    BY <1>4 DEF Command
  <2>4. pc' = "busy wait" BY <1>4 DEF Command, Goto
  <2> QED BY <2>2, <2>3, <2>4 DEF Aimed
<1>5. CASE Word
  <2>1. named' = named /\ pc' # "command" BY <1>5 DEF Word, Goto
  <2>2. CASE device' = device BY <1>0, <2>1, <2>2 DEF Aimed
  <2>3. CASE device' # device
    BY <1>0, <1>5, <2>1, <2>3, WordEffect DEF Aimed
  <2> QED BY <2>2, <2>3
<1>6. CASE Notice BY <1>0, <1>6 DEF Notice, Aimed
<1>7. CASE Work
  <2>1. named' = named /\ pc' = pc BY <1>7 DEF Work, driverVars
  <2>2. device.phase = "busy" BY <1>7 DEF Work, Bsy
  <2>3. pc' # "command" BY <1>0, <2>1, <2>2 DEF Aimed
  <2>4. Span(device.block + 1, device.left - 1) \subseteq Span(device.block, device.left)
    <3>1. PICK b \in Nat, l \in Nat : b = device.block /\ l = device.left
      BY DeviceFields DEF Shape
    <3> QED BY <3>1 DEF Span
  <2>5. device'.phase # "late" BY <1>7, WorkEffect DEF Resting
  <2>6. device'.op = "write" /\ device'.phase # "idle" =>
          Span(device'.block, device'.left) \subseteq named
    BY <1>0, <1>7, <2>2, <2>4, WorkEffect DEF Aimed, Resting
  <2> QED BY <2>1, <2>3, <2>5, <2>6 DEF Aimed
<1>8. CASE PowerCycle BY <1>8 DEF PowerCycle, Resting, Aimed
<1>9. CASE UNCHANGED vars BY <1>1, <1>9 DEF vars, driverVars
<1> QED BY <1>2, <1>3, <1>4, <1>5, <1>6, <1>7, <1>8, <1>9 DEF Next, Driver

LEMMA InitAimed == Init => Shape /\ Aimed
<1> SUFFICES ASSUME Init PROVE Shape /\ Aimed OBVIOUS
<1>1. pc = "idle" /\ device = Resting BY DEF Init
<1>2. disk \in [Blocks -> Seq(Words)]
  <2>1. PICK word \in Words : disk = [b \in Blocks |-> [k \in 1 .. HALF_BLOCK_SIZE |-> word]]
    BY DEF Init
  <2>2. PICK block : block = [k \in 1 .. HALF_BLOCK_SIZE |-> word] OBVIOUS
  <2>3. block \in Seq(Words) BY <2>2, DiskAssumption
  <2> QED BY <2>1, <2>2, <2>3
<1>3. Shape BY <1>1, <1>2, RestingShape DEF Shape, Labels, Resting
<1>4. Aimed BY <1>1 DEF Aimed, Resting
<1> QED BY <1>3, <1>4

\* A block of the disk changes only if the last command was a write that named
\* it: whatever the device breaks off, and after write_blocks has returned too.
THEOREM NothingElseWritten == Spec => OnlyAddressed
<1>1. Shape /\ Aimed /\ [Next]_vars
        => [\A b \in Blocks : "late" \notin faults /\ disk'[b] # disk[b] => b \in named]_vars
  <2> SUFFICES ASSUME Shape, Aimed, [Next]_vars, "late" \notin faults,
                      NEW b \in Blocks, disk'[b] # disk[b]
               PROVE  b \in named
    OBVIOUS
  <2>1. CASE disk' = disk BY <2>1
  <2>2. CASE Work
    <3>1. disk' # disk OBVIOUS
    <3>2. /\ device.op = "write" /\ device.phase = "busy" /\ device.block \in Blocks
          /\ disk' = [disk EXCEPT ![device.block] = device.buffer]
      BY <2>2, <3>1, WorkEffect
    <3>3. b = device.block BY <3>2 DEF Shape
    <3>4. Span(device.block, device.left) \subseteq named BY <3>2 DEF Aimed
    <3>5. device.block \in Span(device.block, device.left)
      <4>1. PICK c \in Nat, l \in Nat : c = device.block /\ l = device.left /\ l # 0
        BY <3>2, DeviceFields DEF Shape
      <4> QED BY <4>1 DEF Span
    <3> QED BY <3>3, <3>4, <3>5
  <2> QED BY <2>1, <2>2
          DEF Next, Driver, Call, SetPorts, Command, BusyWait, ReadyWait, Word,
              Return, Notice, PowerCycle, vars
<1>2. Shape /\ Aimed /\ [Next]_vars => (Shape /\ Aimed)' BY NextShape, NextAimed
<1> QED BY <1>1, <1>2, InitAimed, PTL DEF Spec, OnlyAddressed

----------------------------------------------------------------------------
(* The driver and a device without faults stay in step. *)

\* One word more at the end of what has been read.
LEMMA OneMore ==
    ASSUME NEW h \in Nat \ {0}, NEW n \in Nat, NEW o \in Nat, o < h,
           NEW t, NEW store, NEW first, NEW last \in Nat,
           Copies(t, h, n, o, store, first, last),
           NEW word \in Words, word = store[first + n][o + 1]
    PROVE  Copies(Append(t, word), h, n, o + 1, store, first, last)
<1>0. t \in Seq(Words) /\ Len(t) = n * h + o BY DEF Copies
<1>1. n * h \in Nat OBVIOUS
<1>2. /\ Append(t, word) \in Seq(Words)
      /\ Len(Append(t, word)) = n * h + (o + 1)
      /\ Append(t, word)[n * h + (o + 1)] = word
      /\ \A x \in 1 .. (n * h + o) : Append(t, word)[x] = t[x]
  BY <1>0, <1>1
<1>3. ASSUME NEW k \in 0 .. last, NEW m \in 1 .. h,
             k * h + m <= n * h + (o + 1)
      PROVE  Append(t, word)[k * h + m] = store[first + k][m]
  <2>0. k \in Nat /\ k * h \in Nat /\ o + 1 \in 1 .. h OBVIOUS
  <2>1. CASE k * h + m <= n * h + o
    <3>1. k * h + m \in 1 .. (n * h + o) BY <1>1, <2>0, <2>1
    <3> QED BY <1>2, <2>1, <3>1 DEF Copies
  <2>2. CASE k * h + m = n * h + (o + 1)
    <3>0. k * h + m <= n * h + (o + 1) BY <1>3
    <3>1. k <= n /\ (k = n => m <= o + 1) BY <2>0, <3>0, Places
    <3>2. n * h + (o + 1) <= k * h + m BY <1>1, <2>0, <2>2
    <3>3. n <= k /\ (n = k => o + 1 <= m) BY <2>0, <3>2, Places
    <3>4. k = n /\ m = o + 1 BY <3>1, <3>3
    <3> QED BY <1>2, <3>4
  <2>3. k * h + m <= n * h + o \/ k * h + m = n * h + (o + 1)
    <3>1. PICK p \in Nat : p = k * h BY <2>0
    <3>2. PICK q \in Nat : q = n * h BY <1>1
    <3>3. p + m <= q + (o + 1) BY <1>3, <3>1, <3>2
    <3>4. p + m <= q + o \/ p + m = q + (o + 1) BY <3>3
    <3> QED BY <3>1, <3>2, <3>4
  <2> QED BY <2>1, <2>2, <2>3
<1> QED BY <1>2, <1>3 DEF Copies

\* The blocks of a call are blocks of the device.
LEMMA BlockOf ==
    ASSUME Shape, pc # "idle", NEW k \in Nat, k < call.count
    PROVE  call.lba + k \in Blocks /\ call.lba \in Nat /\ call.count \in Nat \ {0}
<1>1. /\ call.lba \in Nat /\ call.count \in Nat \ {0}
      /\ Span(call.lba, call.count) \subseteq Blocks
  BY CallFields DEF Shape
<1>2. call.lba + k \in Span(call.lba, call.count) BY <1>1 DEF Span
<1> QED BY <1>1, <1>2

LEMMA HalfBlock == HALF_BLOCK_SIZE \in Nat \ {0}
BY DiskAssumption

LEMMA CallInStep ==
    ASSUME IInv, faults = {}, faults' = {}, Call
    PROVE  InStep'
<1>1. pc = "idle" /\ pc' = "start" /\ UNCHANGED <<i, j, device, disk>>
  BY DEF Call
<1>2. target' \in IF call'.op = "read" THEN {<<>>}
                  ELSE [1 .. call'.count * HALF_BLOCK_SIZE -> Words]
  BY DEF Call
<1>3. AtRest' BY <1>1, <1>2 DEF IInv, InStep, AtRest, Quiet
<1> QED BY <1>1, <1>3 DEF IInv, InStep

LEMMA PortsInStep ==
    ASSUME IInv, faults = {}, faults' = {}, SetPorts
    PROVE  InStep'
<1>1. /\ pc = "start" /\ pc' = "command" /\ device.phase # "busy"
      /\ UNCHANGED <<i, j, target, device, disk, call>>
  BY DEF SetPorts, StartWait, Goto, Bsy
<1>2. AtRest' BY <1>1 DEF IInv, InStep, AtRest, Quiet
<1> QED BY <1>1, <1>2 DEF IInv, InStep

LEMMA CommandInStep ==
    ASSUME IInv, faults = {}, faults' = {}, Command
    PROVE  InStep'
<1>1. /\ pc = "command" /\ pc' = "busy wait" /\ device.phase = "idle"
      /\ UNCHANGED <<i, j, target, disk, call>> /\ i = 0 /\ j = 0
  BY DEF Command, Goto, IInv, InStep, AtRest
<1>2. /\ device'.phase = "busy" /\ device'.op = call.op
      /\ device'.block = call.lba /\ device'.left = call.count
      /\ device'.buffer = <<>>
  BY <1>1, CommandEffect DEF IInv
<1>3. /\ call.count \in Nat \ {0} /\ call.lba \in Nat
      /\ call.op \in {"read", "write"}
  BY <1>1, CallFields DEF IInv, Shape
<1>4. At(0)'
  <2>1. call.lba + 0 = call.lba /\ call.count - 0 = call.count BY <1>3
  <2> QED BY <1>1, <1>2, <2>1, Zenon DEF At
<1>5. ASSUME call.op = "read" PROVE Reading'
  <2>1. target' = <<>> BY <1>1, <1>5 DEF IInv, InStep, AtRest
  <2>2. ASSUME NEW last
        PROVE  Copies(<<>>, HALF_BLOCK_SIZE, 0, 0, disk', call'.lba, last)
    <3>1. <<>> \in Seq(Words) /\ Len(<<>>) = 0 OBVIOUS
    <3>2. 0 * HALF_BLOCK_SIZE + 0 = 0 BY HalfBlock
    <3>3. ASSUME NEW k \in 0 .. last, NEW m \in 1 .. HALF_BLOCK_SIZE
          PROVE  ~(k * HALF_BLOCK_SIZE + m <= 0)
      <4>1. k * HALF_BLOCK_SIZE \in Nat BY HalfBlock
      <4> QED BY <4>1
    <3> QED BY <3>1, <3>2, <3>3 DEF Copies
  <2>3. i' = 0 /\ j' = 0 BY <1>1
  <2>4. Copies(target', HALF_BLOCK_SIZE, i', j', disk', call'.lba, call'.count - 1)
    BY <2>1, <2>2, <2>3, Zenon
  <2>5. 0 < call'.count
    <3>1. call' = call BY <1>1
    <3>2. 0 < call.count BY <1>3
    <3> QED BY <3>1, <3>2, Zenon
  <2> QED BY <1>1, <1>2, <1>4, <2>3, <2>4, <2>5 DEF Reading
<1>6. ASSUME call.op = "write" PROVE Writing'
  <2>1. target' \in [1 .. call'.count * HALF_BLOCK_SIZE -> Words]
    BY <1>1, <1>6 DEF IInv, InStep, AtRest
  <2>2. 0 .. (0 - 1) = {} /\ 1 .. 0 = {} OBVIOUS
  <2>3. i' = 0 /\ j' = 0 BY <1>1
  <2>4. Len(device'.buffer) = j' BY <1>2, <2>3
  <2>5. 0 < call'.count /\ call' = call
    <3>1. call' = call BY <1>1
    <3>2. 0 < call.count BY <1>3
    <3> QED BY <3>1, <3>2, Zenon
  <2>6. 0 .. (i' - 1) = {} /\ 1 .. j' = {} BY <2>2, <2>3
  <2> QED BY <1>1, <1>2, <1>4, <2>1, <2>3, <2>4, <2>5, <2>6 DEF Writing
<1>7. UnderWay'
  <2>1. 0 <= call.count BY <1>3
  <2>2. i' <= call'.count BY <1>1, <2>1, Zenon
  <2> QED BY <1>1, <1>5, <1>6, <2>2 DEF UnderWay
<1> QED BY <1>1, <1>2, <1>7 DEF IInv, InStep

LEMMA WaitInStep ==
    ASSUME IInv, faults = {}, faults' = {}, BusyWait \/ ReadyWait
    PROVE  InStep'
<1>1. /\ pc \in {"busy wait", "ready wait"} /\ pc' \in {"ready wait", "words"}
      /\ UNCHANGED <<i, j, target, device, disk, call>>
      /\ UnderWay
  BY DEF BusyWait, ReadyWait, Goto, IInv, InStep
<1>2. /\ i < call.count /\ i \in Nat /\ call.count \in Nat
      /\ call.op \in {"read", "write"}
  <2>1. i \in Nat BY DEF IInv, InStep
  <2>2. i < call.count BY <1>1 DEF BusyWait, ReadyWait, UnderWay
  <2>3. IsCall(call) BY <1>1 DEF IInv, Shape
  <2> QED BY <2>1, <2>2, <2>3, CallFields
<1>3. device.phase = "data"
  <2>1. pc = "ready wait" \/ device.phase # "busy" BY DEF BusyWait, ReadyWait, Bsy
  <2>2. i # call.count BY <1>2
  <2>3. CASE pc = "ready wait" BY <1>1, <2>3 DEF UnderWay
  <2>4. CASE device.phase # "busy" /\ call.op = "read"
    BY <1>1, <2>2, <2>4 DEF UnderWay, Reading
  <2>5. CASE device.phase # "busy" /\ call.op = "write"
    BY <1>1, <2>2, <2>5 DEF UnderWay, Writing
  <2> QED BY <1>2, <2>1, <2>3, <2>4, <2>5
<1>4. call.op = "read" => Reading'
  BY <1>1, <1>2, <1>3 DEF UnderWay, Reading, At
<1>5. call.op = "write" => Writing'
  BY <1>1, <1>2, <1>3 DEF UnderWay, Writing, At, Stored
<1>6. UnderWay' BY <1>1, <1>2, <1>3, <1>4, <1>5 DEF UnderWay
<1> QED BY <1>1, <1>6 DEF IInv, InStep

\* The numbers of a step in the loop.
LEMMA LoopNumbers ==
    ASSUME IInv, faults = {}, pc \in {"busy wait", "ready wait", "words"}
    PROVE  /\ i \in Nat /\ j \in Nat /\ j < HALF_BLOCK_SIZE
           /\ HALF_BLOCK_SIZE \in Nat \ {0}
           /\ call.count \in Nat \ {0} /\ call.lba \in Nat /\ i <= call.count
           /\ call.op \in {"read", "write"}
           /\ UnderWay /\ disk \in [Blocks -> BlockContents]
<1>1. IsCall(call) BY DEF IInv, Shape
<1>2. /\ i \in Nat /\ j \in 0 .. (HALF_BLOCK_SIZE - 1) /\ UnderWay
      /\ disk \in [Blocks -> BlockContents]
  BY DEF IInv, InStep
<1>3. i <= call.count BY <1>2 DEF UnderWay
<1>4. j \in Nat /\ j < HALF_BLOCK_SIZE
  <2>1. j \in 0 .. (HALF_BLOCK_SIZE - 1) BY <1>2
  <2> QED BY ONLY <2>1, HalfBlock
<1>5. /\ call.count \in Nat \ {0} /\ call.lba \in Nat
      /\ call.op \in {"read", "write"}
  BY <1>1, CallFields
<1> QED BY <1>2, <1>3, <1>4, <1>5, HalfBlock

LEMMA ReadWordInStep ==
    ASSUME IInv, faults = {}, faults' = {}, Word, call.op = "read"
    PROVE  InStep'
<1>1. /\ pc = "words" /\ UNCHANGED <<call, disk>>
      /\ call.op = "read"
  BY DEF Word, Goto
<1>2. /\ i \in Nat /\ j \in Nat /\ j < HALF_BLOCK_SIZE
      /\ HALF_BLOCK_SIZE \in Nat \ {0}
      /\ call.count \in Nat \ {0} /\ call.lba \in Nat
      /\ UnderWay /\ disk \in [Blocks -> BlockContents]
  BY <1>1, LoopNumbers
<1>3. i < call.count /\ device.phase = "data" /\ Reading
  BY <1>1, <1>2 DEF UnderWay
<1>4. /\ At(i) /\ Len(device.buffer) = HALF_BLOCK_SIZE - j
      /\ \A m \in 1 .. (HALF_BLOCK_SIZE - j) :
           device.buffer[m] = disk[call.lba + i][j + m]
  BY <1>3 DEF Reading
<1>5. /\ device.op = "read" /\ device.block = call.lba + i
      /\ device.left = call.count - i
  BY <1>1, <1>4 DEF At
<1>6. PICK b \in Seq(Words) : b = device.buffer BY DeviceFields DEF IInv, Shape
<1>7. PICK word \in Words : InWord(word) /\ target' = Append(target, word)
  BY <1>1 DEF Word
<1>8. word = disk[call.lba + i][j + 1]
  <2>1. word = Head(b) BY <1>3, <1>5, <1>6, <1>7 DEF InWord
  <2>2. Len(b) = HALF_BLOCK_SIZE - j /\ 1 \in 1 .. (HALF_BLOCK_SIZE - j)
    BY <1>2, <1>4, <1>6
  <2>3. Head(b) = b[1] BY <1>2, <2>2
  <2> QED BY <1>4, <1>6, <2>1, <2>2, <2>3
<1>9. Copies(target', HALF_BLOCK_SIZE, i, j + 1, disk, call.lba, call.count - 1)
  <2>1. PICK t : t = target OBVIOUS
  <2>2. PICK last \in Nat : last = call.count - 1 BY <1>2
  <2>3. PICK n \in Nat : n = i BY <1>2
  <2>4. PICK o \in Nat : o = j /\ o < HALF_BLOCK_SIZE BY <1>2
  <2>5. PICK first, store : first = call.lba /\ store = disk OBVIOUS
  <2>6. Copies(t, HALF_BLOCK_SIZE, n, o, store, first, last)
    BY <1>3, <2>1, <2>2, <2>3, <2>4, <2>5, Zenon DEF Reading
  <2>7. word = store[first + n][o + 1] BY <1>8, <2>3, <2>4, <2>5, Zenon
  <2>8. Copies(Append(t, word), HALF_BLOCK_SIZE, n, o + 1, store, first, last)
    BY <1>2, <2>4, <2>6, <2>7, OneMore
  <2> QED BY <1>7, <2>1, <2>2, <2>3, <2>4, <2>5, <2>8, Zenon
<1>10. CASE j + 1 < HALF_BLOCK_SIZE
  <2>1. /\ j' = j + 1 /\ i' = i /\ pc' = "words" BY <1>1, <1>10 DEF Word, Goto
  <2>2. Len(b) > 1 /\ b # <<>> BY <1>2, <1>4, <1>6, <1>10
  <2>3. device' = [device EXCEPT !.buffer = Tail(@)]
    BY <1>3, <1>5, <1>6, <1>7, <2>2 DEF InWord
  <2>4. device \in Devices BY DEF IInv, Shape
  <2>5. /\ device'.phase = "data" /\ device'.op = "read"
        /\ device'.block = call.lba + i /\ device'.left = call.count - i
        /\ device'.buffer = Tail(b)
    BY <1>3, <1>5, <1>6, <2>3, <2>4 DEF Devices
  <2>6. /\ Len(Tail(b)) = HALF_BLOCK_SIZE - (j + 1)
        /\ \A m \in 1 .. (HALF_BLOCK_SIZE - (j + 1)) :
             Tail(b)[m] = disk[call.lba + i][(j + 1) + m]
    <3>1. /\ Len(Tail(b)) = Len(b) - 1
          /\ \A m \in 1 .. Len(Tail(b)) : Tail(b)[m] = b[m + 1]
      BY <2>2, HeadTailProperties
    <3>2. Len(b) = HALF_BLOCK_SIZE - j BY <1>4, <1>6
    <3>3. Len(Tail(b)) = HALF_BLOCK_SIZE - (j + 1) BY <1>2, <3>1, <3>2
    <3>4. ASSUME NEW m \in 1 .. (HALF_BLOCK_SIZE - (j + 1))
          PROVE  Tail(b)[m] = disk[call.lba + i][(j + 1) + m]
      <4>1. m + 1 \in 1 .. (HALF_BLOCK_SIZE - j) /\ j + (m + 1) = (j + 1) + m
        BY <1>2
      <4>2. b[m + 1] = disk[call.lba + i][j + (m + 1)] BY <1>4, <1>6, <4>1
      <4>3. Tail(b)[m] = b[m + 1] BY <3>1, <3>3
      <4> QED BY <4>1, <4>2, <4>3
    <3> QED BY <3>3, <3>4
  <2>7. At(i)' BY <1>1, <1>5, <2>1, <2>5 DEF At
  <2>8. Reading'
    <3>1. call' = call /\ disk' = disk BY <1>1
    <3>2. Copies(target', HALF_BLOCK_SIZE, i', j', disk', call'.lba, call'.count - 1)
      BY <1>9, <2>1, <3>1, Zenon
    <3>3. i' < call'.count BY <1>3, <2>1, <3>1
    <3> QED BY <2>1, <2>5, <2>6, <2>7, <3>1, <3>2, <3>3 DEF Reading
  <2>9. UnderWay'
    BY <1>1, <1>2, <1>3, <2>1, <2>5, <2>8 DEF UnderWay
  <2>10. j' \in 0 .. (HALF_BLOCK_SIZE - 1) /\ i' \in Nat
    BY <1>2, <1>10, <2>1
  <2> QED BY <1>1, <1>2, <2>1, <2>5, <2>9, <2>10 DEF InStep
<1>11. CASE ~(j + 1 < HALF_BLOCK_SIZE)
  <2>1. /\ j' = 0 /\ i' = i + 1 /\ pc' = "busy wait"
    BY <1>1, <1>11 DEF Word, Goto
  <2>2. j + 1 = HALF_BLOCK_SIZE BY <1>2, <1>11
  <2>3. ~(Len(device.buffer) > 1) BY <1>2, <1>4, <2>2
  <2>4. /\ device'.phase = IF device.left = 1 THEN "idle" ELSE "busy"
        /\ device'.op = "read" /\ device'.buffer = <<>>
        /\ device'.block = device.block + 1 /\ device'.left = device.left - 1
    <3>1. device' = [Passed EXCEPT !.phase = IF device.left = 1 THEN "idle" ELSE "busy"]
      BY <1>3, <1>5, <1>7, <2>3 DEF InWord
    <3>2. PICK p \in {"idle", "late", "busy", "data"} :
            p = IF device.left = 1 THEN "idle" ELSE "busy"
      OBVIOUS
    <3>3. device \in Devices /\ device.left # 0
      BY <1>3 DEF IInv, Shape
    <3>4. device' = [Passed EXCEPT !.phase = p] BY <3>1, <3>2
    <3> QED BY <1>5, <3>2, <3>3, <3>4, PassedOn
  <2>5. /\ device'.block = call.lba + (i + 1) /\ device'.left = call.count - (i + 1)
        /\ device.left = 1 <=> i + 1 = call.count
    <3>1. device.left \in Nat /\ device.block \in Nat
      BY DeviceFields DEF IInv, Shape
    <3>2. /\ (call.lba + i) + 1 = call.lba + (i + 1)
          /\ (call.count - i) - 1 = call.count - (i + 1)
          /\ call.count - i = 1 <=> i + 1 = call.count
      BY <1>2
    <3>3. /\ device'.block = (call.lba + i) + 1
          /\ device'.left = (call.count - i) - 1
      BY <1>5, <2>4
    <3>4. device.left = call.count - i BY <1>5
    <3> QED BY ONLY <3>2, <3>3, <3>4
  <2>6. At(i)'
    <3>1. call' = call /\ i' = i + 1 BY <1>1, <2>1
    <3>2. /\ device'.op = call.op
          /\ device'.block = call.lba + (i + 1)
          /\ device'.left = call.count - (i + 1)
      BY <1>1, <2>4, <2>5
    <3> QED BY <3>1, <3>2, Zenon DEF At
  <2>7. /\ Copies(target', HALF_BLOCK_SIZE, i', j', disk', call'.lba, call'.count - 1)
        /\ i' <= call'.count /\ i' \in Nat /\ j' \in 0 .. (HALF_BLOCK_SIZE - 1)
    <3>1. i * HALF_BLOCK_SIZE + (j + 1) = (i + 1) * HALF_BLOCK_SIZE + 0
      BY <1>2, <2>2
    <3>2. Copies(target', HALF_BLOCK_SIZE, i + 1, 0, disk, call.lba, call.count - 1)
      BY <1>9, <3>1, Zenon DEF Copies
    <3>3. i + 1 <= call.count /\ i + 1 \in Nat /\ 0 \in 0 .. (HALF_BLOCK_SIZE - 1)
      BY <1>2, <1>3
    <3> QED BY <1>1, <2>1, <3>2, <3>3, Zenon
  <2>8. Reading'
    <3>1. CASE i + 1 = call.count
      BY <1>1, <2>1, <2>4, <2>5, <2>7, <3>1 DEF Reading
    <3>2. CASE i + 1 # call.count
      <4>1. i' < call'.count
        <5>1. i + 1 < call.count BY <1>2, <1>3, <3>2
        <5>2. call' = call /\ i' = i + 1 BY <1>1, <2>1
        <5> QED BY ONLY <5>1, <5>2
      <4>2. device'.phase = "busy" BY <2>4, <2>5, <3>2
      <4> QED BY <1>1, <2>1, <2>6, <2>7, <4>1, <4>2 DEF Reading
    <3> QED BY <3>1, <3>2
  <2>9. UnderWay' BY <1>1, <2>1, <2>7, <2>8 DEF UnderWay
  <2> QED BY <1>1, <1>2, <2>1, <2>4, <2>7, <2>9 DEF InStep
<1> QED BY <1>10, <1>11

LEMMA StoredPart ==
    device.op = "read" \/ Len(device.buffer) # HALF_BLOCK_SIZE => Stored = disk
BY DEF Stored

LEMMA WriteWordInStep ==
    ASSUME IInv, faults = {}, faults' = {}, Word, call.op = "write"
    PROVE  InStep'
<1>1. /\ pc = "words" /\ call' = call /\ disk' = disk /\ target' = target
      /\ call.op = "write"
  BY DEF Word, Goto
<1>2. /\ i \in Nat /\ j \in Nat /\ j < HALF_BLOCK_SIZE
      /\ HALF_BLOCK_SIZE \in Nat \ {0}
      /\ call.count \in Nat \ {0} /\ call.lba \in Nat
      /\ UnderWay /\ disk \in [Blocks -> BlockContents]
  BY <1>1, LoopNumbers
<1>3. i < call.count /\ device.phase = "data" /\ Writing
  BY <1>1, <1>2 DEF UnderWay
<1>4. /\ At(i) /\ Len(device.buffer) = j
      /\ \A m \in 1 .. j : device.buffer[m] = target[i * HALF_BLOCK_SIZE + m]
  BY <1>3 DEF Writing
<1>5. /\ device.op = "write" /\ device.block = call.lba + i
      /\ device.left = call.count - i
  BY <1>1, <1>4 DEF At
<1>6. PICK b \in Seq(Words) : b = device.buffer BY DeviceFields DEF IInv, Shape
<1>7. PICK word \in Words :
        word = target[HALF_BLOCK_SIZE * i + j + 1] /\ OutWord(word)
  BY <1>1 DEF Word
<1>8. word = target[i * HALF_BLOCK_SIZE + (j + 1)]
  <2>1. HALF_BLOCK_SIZE * i + j + 1 = i * HALF_BLOCK_SIZE + (j + 1) BY <1>2
  <2> QED BY <1>7, <2>1, Zenon
<1>9. /\ device'.op = "write" /\ device'.buffer = Append(b, word)
      /\ device'.block = device.block /\ device'.left = device.left
      /\ device'.phase = IF Len(b) + 1 = HALF_BLOCK_SIZE THEN "busy" ELSE "data"
  <2>1. device \in Devices BY DEF IInv, Shape
  <2>2. PICK p : p = IF Len(device.buffer) + 1 = HALF_BLOCK_SIZE THEN "busy" ELSE "data"
    OBVIOUS
  <2>3. device' = [device EXCEPT !.buffer = Append(@, word), !.phase = p]
    BY <1>3, <1>5, <1>7, <2>2 DEF OutWord
  <2> QED BY <1>5, <1>6, <2>1, <2>2, <2>3 DEF Devices
<1>10. /\ Append(b, word) \in Seq(Words) /\ Len(Append(b, word)) = j + 1
       /\ \A m \in 1 .. (j + 1) :
            Append(b, word)[m] = target[i * HALF_BLOCK_SIZE + m]
  <2>1. Len(b) = j BY <1>4, <1>6
  <2>2. /\ Append(b, word) \in Seq(Words) /\ Len(Append(b, word)) = j + 1
        /\ Append(b, word)[j + 1] = word
        /\ \A m \in 1 .. j : Append(b, word)[m] = b[m]
    BY <1>2, <2>1
  <2>3. ASSUME NEW m \in 1 .. (j + 1)
        PROVE  Append(b, word)[m] = target[i * HALF_BLOCK_SIZE + m]
    <3>1. CASE m = j + 1 BY <1>8, <2>2, <3>1
    <3>2. CASE m # j + 1
      <4>1. m \in 1 .. j BY <1>2, <3>2
      <4> QED BY <1>4, <1>6, <2>2, <4>1
    <3> QED BY <3>1, <3>2
  <2> QED BY <2>2, <2>3
<1>11. Stored = disk
  <2>1. Len(device.buffer) # HALF_BLOCK_SIZE BY <1>2, <1>4
  <2> QED BY <2>1, StoredPart
<1>12. \A k \in 0 .. (i - 1), m \in 1 .. HALF_BLOCK_SIZE :
         disk[call.lba + k][m] = target[k * HALF_BLOCK_SIZE + m]
  BY <1>3, <1>11 DEF Writing
<1>13. target \in [1 .. call.count * HALF_BLOCK_SIZE -> Words] BY <1>3 DEF Writing
<1>14. device'.buffer = Append(b, word) /\ Len(device'.buffer) = j + 1
  BY <1>9, <1>10, Zenon
<1>15. CASE j + 1 < HALF_BLOCK_SIZE
  <2>1. /\ j' = j + 1 /\ i' = i /\ pc' = "words" BY <1>1, <1>15 DEF Word, Goto
  <2>2. device'.phase = "data"
    <3>1. Len(b) + 1 # HALF_BLOCK_SIZE BY <1>2, <1>4, <1>6, <1>15
    <3> QED BY <1>9, <3>1
  <2>3. Stored' = disk'
    <3>1. Len(device'.buffer) # HALF_BLOCK_SIZE BY <1>2, <1>14, <1>15
    <3> QED BY <3>1 DEF Stored
  <2>4. At(i)' BY <1>1, <1>5, <1>9, <2>1 DEF At
  <2>5. /\ i' < call'.count /\ i' <= call'.count /\ Len(device'.buffer) = j'
        /\ i' \in Nat /\ j' \in 0 .. (HALF_BLOCK_SIZE - 1)
    <3>1. /\ i <= call.count /\ j + 1 \in 0 .. (HALF_BLOCK_SIZE - 1)
      BY <1>2, <1>3, <1>15
    <3> QED BY <1>1, <1>2, <1>3, <1>14, <2>1, <3>1, Zenon
  <2>6. \A k \in 0 .. (i' - 1), m \in 1 .. HALF_BLOCK_SIZE :
          Stored'[call'.lba + k][m] = target'[k * HALF_BLOCK_SIZE + m]
    BY <1>1, <1>12, <2>1, <2>3, Zenon
  <2>7. \A m \in 1 .. j' : device'.buffer[m] = target'[i' * HALF_BLOCK_SIZE + m]
    BY <1>1, <1>10, <1>14, <2>1, Zenon
  <2>8. target' \in [1 .. call'.count * HALF_BLOCK_SIZE -> Words]
    BY <1>1, <1>13, Zenon
  <2>9. Writing' BY <2>2, <2>4, <2>5, <2>6, <2>7, <2>8 DEF Writing
  <2>10. UnderWay' BY <1>1, <2>1, <2>2, <2>5, <2>9 DEF UnderWay
  <2> QED BY <1>1, <1>2, <2>1, <2>2, <2>5, <2>10 DEF InStep
<1>16. CASE ~(j + 1 < HALF_BLOCK_SIZE)
  <2>1. /\ j' = 0 /\ i' = i + 1 /\ pc' = "busy wait"
    BY <1>1, <1>16 DEF Word, Goto
  <2>2. j + 1 = HALF_BLOCK_SIZE BY <1>2, <1>16
  <2>3. device'.phase = "busy"
    <3>1. Len(b) + 1 = HALF_BLOCK_SIZE BY <1>2, <1>4, <1>6, <2>2
    <3> QED BY <1>9, <3>1
  <2>4. Len(device'.buffer) = HALF_BLOCK_SIZE BY <1>14, <2>2
  <2>5. Stored' = [disk EXCEPT ![call.lba + i] = Append(b, word)]
    <3>1. Stored' = [disk' EXCEPT ![device'.block] = device'.buffer]
      BY <1>9, <2>4 DEF Stored
    <3> QED BY <1>1, <1>5, <1>9, <3>1
  <2>6. /\ i' # 0 /\ i' <= call'.count /\ i' \in Nat
        /\ j' \in 0 .. (HALF_BLOCK_SIZE - 1) /\ i' - 1 = i
    <3>1. /\ i + 1 # 0 /\ i + 1 <= call.count /\ i + 1 \in Nat
          /\ 0 \in 0 .. (HALF_BLOCK_SIZE - 1) /\ (i + 1) - 1 = i
      BY <1>2, <1>3
    <3> QED BY <1>1, <2>1, <3>1, Zenon
  <2>7. At(i - 1)' BY <1>1, <1>5, <1>9, <2>6, Zenon DEF At
  <2>8. ASSUME NEW k \in 0 .. i, NEW m \in 1 .. HALF_BLOCK_SIZE
        PROVE  Stored'[call.lba + k][m] = target[k * HALF_BLOCK_SIZE + m]
    <3>1. /\ k \in Nat /\ k < call.count /\ (k # i => k \in 0 .. (i - 1))
          /\ (k # i => call.lba + k # call.lba + i)
      BY <1>2, <1>3
    <3>2. call.lba + k \in Blocks BY <1>1, <3>1, BlockOf DEF IInv
    <3>3. CASE k = i
      <4>1. Stored'[call.lba + k] = Append(b, word) BY <1>2, <2>5, <3>2, <3>3
      <4> QED BY <1>10, <2>2, <3>3, <4>1, Zenon
    <3>4. CASE k # i
      <4>1. Stored'[call.lba + k] = disk[call.lba + k] BY <1>2, <2>5, <3>1, <3>2, <3>4
      <4> QED BY <1>12, <3>1, <3>4, <4>1
    <3> QED BY <3>3, <3>4
  <2>9. \A k \in 0 .. (i' - 1), m \in 1 .. HALF_BLOCK_SIZE :
          Stored'[call'.lba + k][m] = target'[k * HALF_BLOCK_SIZE + m]
    BY <1>1, <2>6, <2>8, Zenon
  <2>10. target' \in [1 .. call'.count * HALF_BLOCK_SIZE -> Words]
    BY <1>1, <1>13, Zenon
  <2>11. Writing' BY <2>1, <2>3, <2>4, <2>6, <2>7, <2>9, <2>10 DEF Writing
  <2>12. UnderWay' BY <1>1, <2>1, <2>6, <2>11 DEF UnderWay
  <2> QED BY <1>1, <1>2, <2>1, <2>3, <2>6, <2>12 DEF InStep
<1> QED BY <1>15, <1>16

LEMMA ReturnInStep ==
    ASSUME IInv, faults = {}, faults' = {}, Return
    PROVE  InStep'
<1>1. /\ pc = "busy wait" /\ i = call.count /\ pc' = "idle" /\ i' = 0
      /\ j' = j /\ device' = device /\ disk' = disk
  BY DEF Return
<1>2. /\ call.count \in Nat \ {0} /\ call.lba \in Nat /\ UnderWay
      /\ call.op \in {"read", "write"} /\ disk \in [Blocks -> BlockContents]
  BY <1>1, LoopNumbers
<1>3. Quiet
  <2>0. PICK c \in Nat \ {0} : c = call.count BY <1>2
  <2>1. ~(i < call.count)
    <3>1. i = c BY <1>1, <2>0
    <3>2. ~(c < c) OBVIOUS
    <3> QED BY <2>0, <3>1, <3>2, Zenon
  <2>2. CASE call.op = "read" BY <1>2, <2>1, <2>2 DEF UnderWay, Reading, Quiet
  <2>3. CASE call.op = "write" /\ device.phase = "idle" BY <2>3 DEF Quiet
  <2>4. CASE call.op = "write" /\ device.phase # "idle"
    <3>1. /\ At(i - 1) /\ device.phase = "busy"
          /\ Len(device.buffer) = HALF_BLOCK_SIZE
      BY <1>2, <2>1, <2>4 DEF UnderWay, Writing
    <3>2. /\ device.op = "write" /\ device.block = call.lba + (i - 1)
          /\ device.left = call.count - (i - 1)
      BY <2>4, <3>1 DEF At
    <3>3. i - 1 \in Nat /\ i - 1 < call.count /\ call.count - (i - 1) = 1
      <4>1. i = c BY <1>1, <2>0
      <4>2. c - 1 \in Nat /\ c - 1 < c /\ c - (c - 1) = 1 OBVIOUS
      <4> QED BY <2>0, <4>1, <4>2, Zenon
    <3>4. call.lba + (i - 1) \in Blocks BY <1>1, <3>3, BlockOf DEF IInv
    <3> QED BY <3>1, <3>2, <3>3, <3>4 DEF Quiet
  <2> QED BY <1>2, <2>2, <2>3, <2>4
<1>4. AtRest' BY <1>1, <1>3 DEF AtRest, Quiet
<1> QED BY <1>1, <1>4 DEF IInv, InStep

\* A whole block of words is what a block may hold.
LEMMA WholeBlock ==
    ASSUME NEW t \in Seq(Words), Len(t) = HALF_BLOCK_SIZE
    PROVE  t \in BlockContents /\ t # <<>>
<1>1. t \in [1 .. Len(t) -> Words] OBVIOUS
<1>2. t # <<>> BY HalfBlock
<1> QED BY <1>1, <1>2 DEF BlockContents

LEMMA BlockIsSequence ==
    ASSUME NEW t \in BlockContents
    PROVE  t \in Seq(Words) /\ Len(t) = HALF_BLOCK_SIZE
<1>1. PICK h \in Nat : h = HALF_BLOCK_SIZE BY HalfBlock
<1>2. t \in [1 .. h -> Words] BY <1>1 DEF BlockContents
<1>3. t \in Seq(Words) BY <1>2
<1>4. Len(t) = h BY <1>2, <1>3
<1> QED BY <1>1, <1>3, <1>4

\* The device stores the block that it has in whole.
LEMMA StoreEffect ==
    ASSUME IInv, faults = {}, Work, device.op = "write", device.block \in Blocks,
           Len(device.buffer) = HALF_BLOCK_SIZE,
           disk \in [Blocks -> BlockContents]
    PROVE  /\ disk' = Stored /\ Stored' = Stored
           /\ disk' = [disk EXCEPT ![device.block] = device.buffer]
           /\ disk' \in [Blocks -> BlockContents]
           /\ device'.phase = IF device.left = 1 THEN "idle" ELSE "data"
           /\ device'.op = "write" /\ device'.buffer = <<>>
           /\ device'.block = device.block + 1 /\ device'.left = device.left - 1
<1>1. PICK t \in Seq(Words) : t = device.buffer BY DeviceFields DEF IInv, Shape
<1>2. t \in BlockContents /\ t # <<>> BY <1>1, WholeBlock
<1>3. /\ disk' = [disk EXCEPT ![device.block] = device.buffer]
      /\ device'.phase = IF device.left = 1 THEN "idle" ELSE "data"
      /\ device'.op = "write" /\ device'.buffer = <<>>
      /\ device'.block = device.block + 1 /\ device'.left = device.left - 1
  BY <1>1, <1>2, WorkEffect DEF IInv
<1>4. disk' = Stored BY <1>3 DEF Stored
<1>5. Stored' = disk'
  <2>1. Len(<<>>) # HALF_BLOCK_SIZE BY HalfBlock
  <2> QED BY <1>3, <2>1 DEF Stored
<1>6. disk' \in [Blocks -> BlockContents] BY <1>1, <1>2, <1>3
<1> QED BY <1>3, <1>4, <1>5, <1>6

LEMMA WorkReadInStep ==
    ASSUME IInv, faults = {}, faults' = {}, Work,
           pc = "busy wait", call.op = "read"
    PROVE  InStep'
<1>1. device.phase = "busy" BY DEF Work, Bsy
<1>2. UNCHANGED <<pc, call, i, j, target>> BY DEF Work, driverVars
<1>3. /\ i \in Nat /\ call.count \in Nat \ {0} /\ call.lba \in Nat /\ j = 0
      /\ UnderWay /\ disk \in [Blocks -> BlockContents]
  BY LoopNumbers DEF IInv, InStep
<1>4. /\ Copies(target, HALF_BLOCK_SIZE, i, j, disk, call.lba, call.count - 1)
      /\ i < call.count /\ At(i)
  BY <1>1, <1>3 DEF UnderWay, Reading
<1>5. /\ device.op = "read" /\ device.block = call.lba + i
      /\ device.left = call.count - i
  BY <1>4 DEF At
<1>6. call.lba + i \in Blocks BY <1>3, <1>4, BlockOf DEF IInv
<1>7. /\ device'.op = "read" /\ device'.phase = "data"
      /\ device'.buffer = disk[call.lba + i]
      /\ device'.block = device.block /\ device'.left = device.left
      /\ disk' = disk
  BY <1>5, <1>6, WorkEffect DEF IInv
<1>8. PICK content \in BlockContents : content = disk[call.lba + i]
  BY <1>3, <1>6
<1>9. Len(content) = HALF_BLOCK_SIZE - 0 /\ \A m \in 1 .. HALF_BLOCK_SIZE : 0 + m = m
  <2>1. Len(content) = HALF_BLOCK_SIZE BY <1>8, BlockIsSequence
  <2>2. HALF_BLOCK_SIZE = HALF_BLOCK_SIZE - 0 BY ONLY HalfBlock
  <2>3. \A m \in 1 .. HALF_BLOCK_SIZE : 0 + m = m BY ONLY HalfBlock
  <2> QED BY <2>1, <2>2, <2>3, Zenon
<1>10. /\ Len(device'.buffer) = HALF_BLOCK_SIZE - j'
       /\ \A m \in 1 .. (HALF_BLOCK_SIZE - j') :
            device'.buffer[m] = disk'[call'.lba + i'][j' + m]
  <2>1. j' = 0
    <3>1. j' = j BY <1>2
    <3>2. j = 0 BY <1>3
    <3> QED BY <3>1, <3>2, Zenon
  <2>2. HALF_BLOCK_SIZE - 0 = HALF_BLOCK_SIZE BY ONLY HalfBlock
  <2>3. device'.buffer = content /\ disk'[call'.lba + i'] = content
    BY <1>2, <1>7, <1>8
  <2> QED BY <1>9, <2>1, <2>2, <2>3
<1>11. At(i)' BY <1>2, <1>5, <1>7 DEF At
<1>12. /\ i' < call'.count
       /\ Copies(target', HALF_BLOCK_SIZE, i', j', disk', call'.lba, call'.count - 1)
  BY <1>2, <1>4, <1>7
<1>13. Reading' BY <1>7, <1>10, <1>11, <1>12 DEF Reading
<1>14. UnderWay'
  <2>1. i' <= call'.count BY <1>2, <1>3 DEF UnderWay
  <2> QED BY <1>2, <1>13, <2>1 DEF UnderWay
<1> QED BY <1>2, <1>3, <1>7, <1>14 DEF IInv, InStep

LEMMA WorkWriteInStep ==
    ASSUME IInv, faults = {}, faults' = {}, Work,
           pc = "busy wait", call.op = "write"
    PROVE  InStep'
<1>1. device.phase = "busy" BY DEF Work, Bsy
<1>2. UNCHANGED <<pc, call, i, j, target>> BY DEF Work, driverVars
<1>3. /\ i \in Nat /\ call.count \in Nat \ {0} /\ call.lba \in Nat /\ j = 0
      /\ UnderWay /\ disk \in [Blocks -> BlockContents] /\ i <= call.count
      /\ HALF_BLOCK_SIZE \in Nat \ {0}
  BY LoopNumbers DEF IInv, InStep
<1>4. Writing BY <1>3 DEF UnderWay
<1>5. CASE i < call.count /\ At(i) /\ Len(device.buffer) = j
  <2>1. /\ device.op = "write" /\ device.block = call.lba + i
        /\ device.left = call.count - i
    BY <1>5 DEF At
  <2>2. PICK t \in Seq(Words) : t = device.buffer BY DeviceFields DEF IInv, Shape
  <2>3. t = <<>>
    <3>1. Len(t) = 0 BY <1>3, <1>5, <2>2, Zenon
    <3> QED BY ONLY <3>1, t \in Seq(Words)
  <2>4. call.lba + i \in Blocks BY <1>3, <1>5, BlockOf DEF IInv
  <2>5. /\ device'.op = "write" /\ device'.phase = "data" /\ device'.buffer = <<>>
        /\ device'.block = device.block /\ device'.left = device.left
        /\ disk' = disk
    BY <2>1, <2>2, <2>3, <2>4, WorkEffect DEF IInv
  <2>6. Stored' = Stored
    <3>1. Len(<<>>) # HALF_BLOCK_SIZE BY <1>3
    <3>2. Stored' = disk' BY <2>5, <3>1 DEF Stored
    <3>3. Stored = disk BY <2>2, <2>3, <3>1 DEF Stored
    <3> QED BY <2>5, <3>2, <3>3
  <2>7. At(i)' BY <1>2, <2>1, <2>5 DEF At
  <2>8. Len(device'.buffer) = j' /\ 1 .. j' = {}
    <3>1. Len(<<>>) = 0 /\ 1 .. 0 = {} BY ONLY TRUE
    <3>2. j' = 0 /\ device'.buffer = <<>> BY <1>2, <1>3, <2>5, Zenon
    <3> QED BY <3>1, <3>2, Zenon
  <2>9. i' < call'.count /\ i' <= call'.count BY <1>2, <1>3, <1>5
  <2>10. /\ target' \in [1 .. call'.count * HALF_BLOCK_SIZE -> Words]
         /\ \A k \in 0 .. (i' - 1), m \in 1 .. HALF_BLOCK_SIZE :
              Stored'[call'.lba + k][m] = target'[k * HALF_BLOCK_SIZE + m]
    BY <1>2, <1>4, <2>6 DEF Writing
  <2>11. Writing' BY <2>5, <2>7, <2>8, <2>9, <2>10 DEF Writing
  <2>12. UnderWay' BY <1>2, <2>9, <2>11 DEF UnderWay
  <2> QED BY <1>2, <1>3, <2>5, <2>12 DEF IInv, InStep
<1>6. CASE i # 0 /\ At(i - 1) /\ Len(device.buffer) = HALF_BLOCK_SIZE
  <2>1. /\ device.op = "write" /\ device.block = call.lba + (i - 1)
        /\ device.left = call.count - (i - 1)
    BY <1>6 DEF At
  <2>2. /\ i - 1 \in Nat /\ i - 1 < call.count
        /\ (call.lba + (i - 1)) + 1 = call.lba + i
        /\ (call.count - (i - 1)) - 1 = call.count - i
        /\ (call.count - (i - 1) = 1 <=> i = call.count)
        /\ (i # call.count => i < call.count)
    <3>1. PICK n \in Nat, c \in Nat, a \in Nat :
            n = i /\ c = call.count /\ a = call.lba
      BY <1>3
    <3>2. n # 0 /\ n <= c BY <1>3, <1>6, <3>1
    <3>3. /\ n - 1 \in Nat /\ n - 1 < c
          /\ (a + (n - 1)) + 1 = a + n
          /\ (c - (n - 1)) - 1 = c - n
          /\ (c - (n - 1) = 1 <=> n = c)
          /\ (n # c => n < c)
      BY ONLY <3>2, n \in Nat, c \in Nat, a \in Nat
    <3> QED BY <3>1, <3>3, Zenon
  <2>3. call.lba + (i - 1) \in Blocks BY <2>2, BlockOf DEF IInv
  <2>4. /\ Stored' = Stored /\ disk' \in [Blocks -> BlockContents]
        /\ device'.phase = IF device.left = 1 THEN "idle" ELSE "data"
        /\ device'.op = "write" /\ device'.buffer = <<>>
        /\ device'.block = device.block + 1 /\ device'.left = device.left - 1
    BY <1>3, <1>6, <2>1, <2>3, StoreEffect
  <2>5. At(i)'
    <3>1. device'.block = call.lba + i /\ device'.left = call.count - i
      BY <2>1, <2>2, <2>4, Zenon
    <3>2. call' = call /\ i' = i /\ device'.op = call.op BY <1>2, <2>4
    <3> QED BY <3>1, <3>2, Zenon DEF At
  <2>6. Len(device'.buffer) = j' /\ 1 .. j' = {}
    <3>1. Len(<<>>) = 0 /\ 1 .. 0 = {} BY ONLY TRUE
    <3>2. j' = 0 /\ device'.buffer = <<>> BY <1>2, <1>3, <2>4, Zenon
    <3> QED BY <3>1, <3>2, Zenon
  <2>7. /\ target' \in [1 .. call'.count * HALF_BLOCK_SIZE -> Words]
        /\ \A k \in 0 .. (i' - 1), m \in 1 .. HALF_BLOCK_SIZE :
             Stored'[call'.lba + k][m] = target'[k * HALF_BLOCK_SIZE + m]
    BY <1>2, <1>4, <2>4 DEF Writing
  <2>8. \/ i' = call'.count /\ device'.phase = "idle"
        \/ i' < call'.count /\ device'.phase = "data"
    <3>1. device.left = 1 <=> i = call.count BY <2>1, <2>2, Zenon
    <3>2. CASE i = call.count BY <1>2, <2>4, <3>1, <3>2
    <3>3. CASE i # call.count
      <4>1. device'.phase = "data" BY <2>4, <3>1, <3>3
      <4>2. i < call.count BY <2>2, <3>3
      <4> QED BY <1>2, <4>1, <4>2, Zenon
    <3> QED BY <3>2, <3>3
  <2>9. Writing' BY <2>5, <2>6, <2>7, <2>8 DEF Writing
  <2>10. UnderWay'
    <3>1. i' <= call'.count BY <1>2, <1>3
    <3> QED BY <1>2, <2>9, <3>1 DEF UnderWay
  <2> QED BY <1>2, <1>3, <2>4, <2>10 DEF IInv, InStep
<1> QED BY <1>1, <1>4, <1>5, <1>6 DEF Writing

LEMMA WorkInStep ==
    ASSUME IInv, faults = {}, faults' = {}, Work
    PROVE  InStep'
<1>1. device.phase = "busy" BY DEF Work, Bsy
<1>2. UNCHANGED <<pc, call, i, j, target>> BY DEF Work, driverVars
<1>3. CASE pc \in {"idle", "start", "command"}
  <2>1. /\ pc # "command" /\ device.op = "write" /\ device.left = 1
        /\ device.block \in Blocks /\ Len(device.buffer) = HALF_BLOCK_SIZE
        /\ disk \in [Blocks -> BlockContents]
    BY <1>1, <1>3 DEF IInv, InStep, AtRest, Quiet
  <2>2. /\ disk' \in [Blocks -> BlockContents]
        /\ device'.phase = "idle" /\ device'.buffer = <<>>
    BY <2>1, StoreEffect
  <2>3. AtRest' BY <1>2, <1>3, <2>1, <2>2 DEF IInv, InStep, AtRest, Quiet
  <2> QED BY <1>2, <1>3, <2>2, <2>3 DEF IInv, InStep
<1>4. CASE pc = "busy wait"
  <2>1. call.op \in {"read", "write"} BY <1>4, LoopNumbers
  <2> QED BY <1>4, <2>1, WorkReadInStep, WorkWriteInStep
<1>5. CASE pc \in {"ready wait", "words"}
  BY <1>1, <1>5 DEF IInv, InStep, UnderWay
<1> QED BY <1>3, <1>4, <1>5 DEF IInv, Shape, Labels

LEMMA PowerInStep ==
    ASSUME IInv, faults = {}, faults' = {}, PowerCycle
    PROVE  InStep'
<1>1. AtRest' BY DEF PowerCycle, AtRest, Quiet, Resting
<1>2. 0 \in 0 .. (HALF_BLOCK_SIZE - 1) BY HalfBlock
<1>3. /\ pc' = "idle" /\ i' = 0 /\ j' = 0 /\ disk' = disk
      /\ device'.buffer = <<>>
  BY DEF PowerCycle, Resting
<1>4. disk \in [Blocks -> BlockContents] BY DEF IInv, InStep
<1>5. /\ disk' \in [Blocks -> BlockContents]
      /\ i' \in Nat /\ j' \in 0 .. (HALF_BLOCK_SIZE - 1)
  <2>1. 0 \in Nat OBVIOUS
  <2> QED BY <1>2, <1>3, <1>4, <2>1, Zenon
<1> QED BY <1>1, <1>3, <1>5, Zenon DEF InStep

LEMMA StillInStep ==
    ASSUME IInv, UNCHANGED vars
    PROVE  InStep'
<1>1. /\ pc' = pc /\ call' = call /\ i' = i /\ j' = j /\ target' = target
      /\ device' = device /\ disk' = disk /\ faults' = faults
  BY DEF vars, driverVars
<1>2. AtRest => AtRest' BY <1>1, Zenon DEF AtRest, Quiet
<1>3. Reading => Reading' BY <1>1, Zenon DEF Reading, At
<1>4. Stored' = Stored BY <1>1, Zenon DEF Stored
<1>5. Writing => Writing' BY <1>1, <1>4, Zenon DEF Writing, At
<1>6. UnderWay => UnderWay' BY <1>1, <1>3, <1>5, Zenon DEF UnderWay
<1> QED BY <1>1, <1>2, <1>6, Zenon DEF IInv, InStep

LEMMA NextInv == IInv /\ [Next]_vars => IInv'
<1> SUFFICES ASSUME IInv, [Next]_vars PROVE IInv' OBVIOUS
<1>1. Shape' /\ Aimed' BY NextShape, NextAimed DEF IInv
<1>2. InStep'
  <2> SUFFICES ASSUME faults' = {} PROVE InStep' BY DEF InStep
  <2>1. faults = {}
    BY DEF Next, Driver, Call, SetPorts, Command, BusyWait, ReadyWait, Word,
       Return, Notice, Work, PowerCycle, vars
  <2>2. CASE Word
    <3>1. call.op \in {"read", "write"} BY <2>1, <2>2, LoopNumbers DEF Word
    <3> QED BY <2>1, <2>2, <3>1, ReadWordInStep, WriteWordInStep
  <2>3. CASE Notice BY <2>1, <2>3 DEF Notice, IInv, Aimed
  <2> QED BY <2>1, <2>2, <2>3, CallInStep, PortsInStep, CommandInStep, WaitInStep,
             ReturnInStep, WorkInStep, PowerInStep, StillInStep
          DEF Next, Driver
<1> QED BY <1>1, <1>2 DEF IInv

LEMMA InitInv == Init => IInv
<1> SUFFICES ASSUME Init PROVE InStep BY InitAimed DEF IInv
<1>1. disk \in [Blocks -> BlockContents] BY DEF Init, BlockContents
<1>2. 0 \in 0 .. (HALF_BLOCK_SIZE - 1) BY HalfBlock
<1>3. AtRest BY DEF Init, AtRest, Quiet, Resting
<1> QED BY <1>1, <1>2, <1>3 DEF Init, Resting, InStep

----------------------------------------------------------------------------
(* Every block that was to be written can be read. *)

\* A block cut out of a sequence of blocks.
LEMMA Cut ==
    ASSUME NEW h \in Nat \ {0}, NEW n \in Nat, NEW t \in Seq(Words),
           Len(t) = n * h, NEW b \in 1 .. n
    PROVE  /\ SubSeq(t, (b - 1) * h + 1, b * h) \in [1 .. h -> Words]
           /\ \A m \in 1 .. h :
                SubSeq(t, (b - 1) * h + 1, b * h)[m] = t[(b - 1) * h + m]
<1>1. PICK k \in Nat : k = b - 1 /\ k < n /\ b = k + 1 OBVIOUS
<1>2. PICK p \in Nat : p = k * h OBVIOUS
<1>3. (b - 1) * h = p /\ b * h = p + h
  BY <1>1, <1>2
<1>4. PICK s : s = SubSeq(t, p + 1, p + h) OBVIOUS
<1>5. \A x \in (p + 1) .. (p + h) : t[x] \in Words
  <2>1. n * h \in Nat OBVIOUS
  <2>2. p + h <= n * h
    <3>1. 1 \in 1 .. h OBVIOUS
    <3>2. k * h + h <= n * h BY <1>1, <3>1, Within
    <3> QED BY <1>2, <3>2
  <2>3. ASSUME NEW x \in (p + 1) .. (p + h) PROVE t[x] \in Words
    <3>1. x \in 1 .. (n * h) BY <1>2, <2>1, <2>2
    <3>2. t \in [1 .. Len(t) -> Words] BY LenProperties
    <3> QED BY <3>1, <3>2
  <2> QED BY <2>3
<1>6. /\ s \in Seq(Words) /\ Len(s) = h
      /\ \A m \in 1 .. h : s[m] = t[p + m]
  <2>1. /\ p + 1 \in Int /\ p + h \in Int /\ p + 1 <= p + h
        /\ (p + h) - (p + 1) + 1 = h
    OBVIOUS
  <2>2. /\ SubSeq(t, p + 1, p + h) \in Seq(Words)
        /\ Len(SubSeq(t, p + 1, p + h)) = h
        /\ \A m \in 1 .. h : SubSeq(t, p + 1, p + h)[m] = t[(p + 1) + m - 1]
    <3>1. /\ SubSeq(t, p + 1, p + h) \in Seq(Words)
          /\ Len(SubSeq(t, p + 1, p + h)) =
               IF p + 1 <= p + h THEN (p + h) - (p + 1) + 1 ELSE 0
          /\ \A m \in 1 .. ((p + h) - (p + 1) + 1) :
               SubSeq(t, p + 1, p + h)[m] = t[(p + 1) + m - 1]
      <4>1. PICK u \in Int, v \in Int : u = p + 1 /\ v = p + h OBVIOUS
      <4>2. \A x \in u .. v : t[x] \in Words BY <1>5, <4>1, Zenon
      <4>3. /\ SubSeq(t, u, v) \in Seq(Words)
            /\ Len(SubSeq(t, u, v)) = IF u <= v THEN v - u + 1 ELSE 0
            /\ \A m \in 1 .. (v - u + 1) : SubSeq(t, u, v)[m] = t[u + m - 1]
        BY <4>2, SubSeqProperties
      <4> QED BY <4>1, <4>3, Zenon
    <3> QED BY <2>1, <3>1, Zenon
  <2>3. \A m \in 1 .. h : (p + 1) + m - 1 = p + m OBVIOUS
  <2> QED BY <1>4, <2>2, <2>3, Zenon
<1>7. s \in [1 .. h -> Words]
  <2>1. s \in [1 .. Len(s) -> Words] BY <1>6, LenProperties
  <2> QED BY <1>6, <2>1, Zenon
<1> QED BY <1>3, <1>4, <1>6, <1>7, Zenon

LEMMA SameFunction ==
    ASSUME NEW D, NEW R, NEW f \in [D -> R], NEW g \in [D -> R],
           \A x \in D : f[x] = g[x]
    PROVE  f = g
OBVIOUS

\* So many blocks are cut out as the sequence has.
LEMMA Cuts ==
    ASSUME NEW n \in Nat, NEW t \in Seq(Words), Len(t) = n * HALF_BLOCK_SIZE,
           NEW content,
           \A b \in 1 .. n, m \in 1 .. HALF_BLOCK_SIZE :
             content[b][m] = t[(b - 1) * HALF_BLOCK_SIZE + m],
           \A b \in 1 .. n : content[b] \in BlockContents
    PROVE  InBlocks(t) = [b \in 1 .. n |-> content[b]]
<1>1. Len(t) \div HALF_BLOCK_SIZE = n
  <2>1. PICK h \in Nat \ {0} : h = HALF_BLOCK_SIZE BY HalfBlock
  <2>2. PICK x \in Nat : x = n * h BY <2>1
  <2>3. x \div h \in Nat /\ x % h \in Nat /\ x = (x % h) + h * (x \div h)
    BY <2>1, Divided
  <2>4. x % h < h BY <2>1
  <2>5. PICK q \in Nat, r \in Nat : q = x \div h /\ r = x % h BY <2>3
  <2>6. n * h = r + h * q /\ r < h BY <2>2, <2>3, <2>4, <2>5
  <2>7. q = n
    <3>1. CASE q < n
      <4>1. PICK d \in Nat : n = q + 1 + d
        <5>1. n - q - 1 \in Nat /\ n = q + 1 + (n - q - 1) BY <3>1
        <5> QED BY <5>1
      <4>2. n * h = h * q + h + d * h BY <4>1
      <4>3. d * h \in Nat /\ h * q \in Nat OBVIOUS
      <4> QED BY <2>6, <4>2, <4>3
    <3>2. CASE n < q
      <4>1. PICK d \in Nat : q = n + 1 + d
        <5>1. q - n - 1 \in Nat /\ q = n + 1 + (q - n - 1) BY <3>2
        <5> QED BY <5>1
      <4>2. h * q = n * h + h + d * h BY <4>1
      <4>3. d * h \in Nat /\ n * h \in Nat OBVIOUS
      <4> QED BY <2>6, <4>2, <4>3
    <3> QED BY <3>1, <3>2
  <2> QED BY <2>1, <2>2, <2>5, <2>7
<1>2. ASSUME NEW b \in 1 .. n
      PROVE  SubSeq(t, (b - 1) * HALF_BLOCK_SIZE + 1, b * HALF_BLOCK_SIZE) = content[b]
  <2>1. PICK s : s = SubSeq(t, (b - 1) * HALF_BLOCK_SIZE + 1, b * HALF_BLOCK_SIZE)
    OBVIOUS
  <2>2. /\ s \in [1 .. HALF_BLOCK_SIZE -> Words]
        /\ \A m \in 1 .. HALF_BLOCK_SIZE : s[m] = t[(b - 1) * HALF_BLOCK_SIZE + m]
    <3>1. PICK h \in Nat \ {0} : h = HALF_BLOCK_SIZE BY HalfBlock
    <3>2. Len(t) = n * h BY <3>1, Zenon
    <3>3. /\ SubSeq(t, (b - 1) * h + 1, b * h) \in [1 .. h -> Words]
          /\ \A m \in 1 .. h :
               SubSeq(t, (b - 1) * h + 1, b * h)[m] = t[(b - 1) * h + m]
      BY <3>2, Cut, Zenon
    <3> QED BY <2>1, <3>1, <3>3, Zenon
  <2>3. PICK c : c = content[b] OBVIOUS
  <2>4. c \in [1 .. HALF_BLOCK_SIZE -> Words] BY <2>3, Zenon DEF BlockContents
  <2>5. \A m \in 1 .. HALF_BLOCK_SIZE : s[m] = c[m] BY <2>2, <2>3, Zenon
  <2>6. s = c
    <3>1. PICK D : D = 1 .. HALF_BLOCK_SIZE OBVIOUS
    <3>2. s \in [D -> Words] /\ c \in [D -> Words] BY <2>2, <2>4, <3>1, Zenon
    <3>3. \A x \in D : s[x] = c[x] BY <2>5, <3>1, Zenon
    <3> QED BY ONLY <3>2, <3>3, SameFunction
  <2> QED BY <2>1, <2>3, <2>6, Zenon
<1> QED BY <1>1, <1>2, Zenon DEF InBlocks

\* What can be read is in blocks.
LEMMA StoredInBlocks ==
    ASSUME IInv, faults = {}
    PROVE  Stored \in [Blocks -> BlockContents]
<1>1. disk \in [Blocks -> BlockContents] BY DEF IInv, InStep
<1>2. PICK t \in Seq(Words) : t = device.buffer BY DeviceFields DEF IInv, Shape
<1>3. Len(t) = HALF_BLOCK_SIZE => t \in BlockContents BY WholeBlock
<1> QED BY <1>1, <1>2, <1>3 DEF Stored

LEMMA Arrived == IInv => WritesArrive
<1> SUFFICES ASSUME IInv, faults = {}, pc = "busy wait", i = call.count,
                    call.op = "write"
             PROVE  \A b \in 1 .. call.count :
                      Stored[call.lba + b - 1] = InBlocks(target)[b]
  BY DEF WritesArrive
<1>1. /\ call.count \in Nat \ {0} /\ call.lba \in Nat /\ Writing
  BY LoopNumbers DEF UnderWay
<1>0. PICK t, store : t = target /\ store = Stored OBVIOUS
<1>2. PICK n \in Nat \ {0}, a \in Nat :
        n = call.count /\ a = call.lba /\ t = target /\ store = Stored
  BY <1>0, <1>1
<1>3. /\ t \in [1 .. n * HALF_BLOCK_SIZE -> Words]
      /\ \A k \in 0 .. (n - 1), m \in 1 .. HALF_BLOCK_SIZE :
           store[a + k][m] = t[k * HALF_BLOCK_SIZE + m]
  BY <1>1, <1>2, Zenon DEF Writing
<1>4. t \in Seq(Words) /\ Len(t) = n * HALF_BLOCK_SIZE
  <2>1. PICK l \in Nat : l = n * HALF_BLOCK_SIZE BY ONLY HalfBlock, n \in Nat \ {0}
  <2>2. t \in [1 .. l -> Words] BY <1>3, <2>1
  <2>3. t \in Seq(Words) /\ Len(t) = l BY ONLY <2>2, l \in Nat
  <2> QED BY <2>1, <2>3
<1>5. PICK content : content = [b \in 1 .. n |-> store[a + b - 1]] OBVIOUS
<1>6. ASSUME NEW b \in 1 .. n
      PROVE  /\ content[b] \in BlockContents
             /\ \A m \in 1 .. HALF_BLOCK_SIZE :
                  content[b][m] = t[(b - 1) * HALF_BLOCK_SIZE + m]
  <2>1. /\ b - 1 \in 0 .. (n - 1) /\ b - 1 \in Nat /\ b - 1 < n
        /\ a + b - 1 = a + (b - 1)
    BY ONLY b \in 1 .. n, n \in Nat \ {0}, a \in Nat
  <2>2. a + (b - 1) \in Blocks BY <1>2, <2>1, BlockOf, Zenon DEF IInv
  <2>3. store \in [Blocks -> BlockContents] BY <1>2, StoredInBlocks
  <2>4. content[b] = store[a + (b - 1)] BY <1>5, <2>1
  <2> QED BY <1>3, <2>1, <2>2, <2>3, <2>4
<1>7. InBlocks(t) = [b \in 1 .. n |-> content[b]]
  <2>1. \A b \in 1 .. n, m \in 1 .. HALF_BLOCK_SIZE :
          content[b][m] = t[(b - 1) * HALF_BLOCK_SIZE + m]
    BY <1>6
  <2>2. \A b \in 1 .. n : content[b] \in BlockContents BY <1>6
  <2>3. n \in Nat OBVIOUS
  <2> QED BY ONLY <1>4, <2>1, <2>2, <2>3, Cuts
<1>8. \A b \in 1 .. n : store[a + b - 1] = InBlocks(t)[b] BY <1>5, <1>7
<1> QED BY <1>2, <1>8, Zenon

\* When write_blocks returns, each block it was to write reads back as the
\* caller passed it, for a call of any length.
THEOREM WritesReachTheDevice == Spec => []WritesArrive
<1> QED BY InitInv, NextInv, Arrived, PTL DEF Spec

----------------------------------------------------------------------------
(* AtaDisk implements BlockStore. *)

\* What the steps of a device without faults do to what can be read, what is
\* stored, and what was answered.
Asks     == UNCHANGED <<Stored, disk>> /\ answer' = <<>>
Stays    == UNCHANGED <<Stored, disk, answer>>
Crashes  == Stored' = disk /\ disk' = disk /\ answer' = <<>>
Settles  == disk' = Stored /\ UNCHANGED <<Stored, answer>>
Writes   == \E a \in Blocks, content \in BlockContents :
              /\ disk = Stored
              /\ Stored' = [Stored EXCEPT ![a] = content]
              /\ UNCHANGED <<disk, answer>>
Reads    == \E a \in Blocks : \E count \in {n \in 1 .. 255 : a + n - 1 \in Blocks} :
              /\ answer' = [k \in 1 .. count |-> Stored[a + k - 1]]
              /\ UNCHANGED <<Stored, disk>>

LEMMA EmptyBuffer ==
    ASSUME device.buffer = <<>> \/ device.op = "read"
    PROVE  Stored = disk
<1>1. Len(<<>>) # HALF_BLOCK_SIZE BY HalfBlock
<1> QED BY <1>1 DEF Stored

LEMMA EmptyBufferNext ==
    ASSUME device'.buffer = <<>> \/ device'.op = "read"
    PROVE  Stored' = disk'
<1>1. Len(<<>>) # HALF_BLOCK_SIZE BY HalfBlock
<1> QED BY <1>1 DEF Stored

LEMMA SameDevice ==
    ASSUME device' = device, disk' = disk
    PROVE  Stored' = Stored
BY DEF Stored

LEMMA CommandKeeps ==
    ASSUME IInv, faults = {}, Command
    PROVE  Stays
<1>1. /\ pc = "command" /\ disk' = disk /\ answer' = answer
  BY DEF Command, Goto
<1>2. device.phase = "idle" /\ device.buffer = <<>>
  BY <1>1 DEF IInv, InStep, AtRest
<1>3. device'.buffer = <<>> BY <1>2, CommandEffect DEF IInv
<1> QED BY <1>1, <1>2, <1>3, EmptyBuffer, EmptyBufferNext DEF Stays

LEMMA WordKeeps ==
    ASSUME IInv, faults = {}, Word
    PROVE  Stays \/ Writes
<1>1. pc = "words" /\ disk' = disk /\ answer' = answer BY DEF Word, Goto
<1>2. /\ call.op \in {"read", "write"} /\ UnderWay
      /\ j \in Nat /\ j < HALF_BLOCK_SIZE
  BY <1>1, LoopNumbers
<1>3. device'.op = device.op /\ device' \in Devices BY WordEffect DEF IInv
<1>4. CASE call.op = "read"
  <2>1. device.op = "read" BY <1>1, <1>2, <1>4 DEF UnderWay, Reading, At
  <2>2. device'.op = "read" BY <1>3, <2>1
  <2> QED BY <1>1, <2>1, <2>2, EmptyBuffer, EmptyBufferNext DEF Stays
<1>5. CASE call.op = "write"
  <2>1. /\ device.phase = "data" /\ At(i) /\ Len(device.buffer) = j /\ i < call.count
    BY <1>1, <1>2, <1>5 DEF UnderWay, Writing
  <2>2. /\ device.op = "write" /\ device.block = call.lba + i BY <1>5, <2>1 DEF At
  <2>3. Stored = disk
    <3>1. Len(device.buffer) # HALF_BLOCK_SIZE BY <1>2, <2>1
    <3> QED BY <3>1, StoredPart
  <2>4. device.block \in Blocks
    <3>1. i \in Nat /\ i < call.count BY <2>1 DEF IInv, InStep
    <3> QED BY <1>1, <2>2, <3>1, BlockOf DEF IInv
  <2>5. device'.block = device.block BY <1>5, <2>2, WordEffect DEF IInv
  <2>6. CASE Len(device'.buffer) = HALF_BLOCK_SIZE
    <3>1. PICK t \in Seq(Words) : t = device'.buffer BY <1>3, DeviceFields
    <3>2. t \in BlockContents BY <2>6, <3>1, WholeBlock
    <3>3. Stored' = [disk EXCEPT ![device.block] = t]
      BY <1>1, <1>3, <2>2, <2>5, <2>6, <3>1 DEF Stored
    <3> QED BY <1>1, <2>3, <2>4, <3>2, <3>3 DEF Writes
  <2>7. CASE Len(device'.buffer) # HALF_BLOCK_SIZE
    <3>1. Stored' = disk' BY <2>7 DEF Stored
    <3> QED BY <1>1, <2>3, <3>1 DEF Stays
  <2> QED BY <2>6, <2>7
<1> QED BY <1>2, <1>4, <1>5

LEMMA ReturnReads ==
    ASSUME IInv, faults = {}, Return, call.op = "read"
    PROVE  Reads
<1>1. /\ pc = "busy wait" /\ i = call.count /\ device' = device /\ disk' = disk
      /\ answer' = InBlocks(target)
  BY DEF Return
<1>2. /\ call.count \in Nat \ {0} /\ call.lba \in Nat /\ UnderWay /\ j = 0
  BY <1>1, LoopNumbers DEF IInv, InStep
<1>3. Reading BY <1>2 DEF UnderWay
<1>0. PICK t, store : t = target /\ store = disk OBVIOUS
<1>4. PICK n \in Nat \ {0}, a \in Nat :
        n = call.count /\ a = call.lba /\ t = target /\ store = disk
  BY <1>0, <1>2
<1>5. device.phase = "idle"
  <2>1. ~(n < n) OBVIOUS
  <2>2. ~(i < call.count) BY <1>1, <1>4, <2>1, Zenon
  <2> QED BY <1>3, <2>2 DEF Reading
<1>6. Stored = disk
  <2>1. device.buffer = <<>> BY <1>5 DEF IInv, InStep
  <2> QED BY <2>1, EmptyBuffer
<1>7. Copies(t, HALF_BLOCK_SIZE, n, 0, store, a, n - 1)
  BY <1>1, <1>2, <1>3, <1>4, Zenon DEF Reading
<1>8. t \in Seq(Words) /\ Len(t) = n * HALF_BLOCK_SIZE
  <2>1. n * HALF_BLOCK_SIZE + 0 = n * HALF_BLOCK_SIZE
    BY ONLY HalfBlock, n \in Nat \ {0}
  <2> QED BY <1>7, <2>1, Zenon DEF Copies
<1>9. PICK content : content = [k \in 1 .. n |-> store[a + k - 1]] OBVIOUS
<1>10. ASSUME NEW b \in 1 .. n
       PROVE  /\ content[b] \in BlockContents
              /\ \A m \in 1 .. HALF_BLOCK_SIZE :
                   content[b][m] = t[(b - 1) * HALF_BLOCK_SIZE + m]
  <2>1. /\ b - 1 \in 0 .. (n - 1) /\ b - 1 \in Nat /\ b - 1 < n
        /\ a + b - 1 = a + (b - 1)
    BY ONLY b \in 1 .. n, n \in Nat \ {0}, a \in Nat
  <2>2. a + (b - 1) \in Blocks BY <1>1, <1>4, <2>1, BlockOf, Zenon DEF IInv
  <2>3. store \in [Blocks -> BlockContents] BY <1>4 DEF IInv, InStep
  <2>4. content[b] = store[a + (b - 1)] BY <1>9, <2>1
  <2>5. ASSUME NEW m \in 1 .. HALF_BLOCK_SIZE
        PROVE  t[(b - 1) * HALF_BLOCK_SIZE + m] = store[a + (b - 1)][m]
    <3>1. PICK h \in Nat \ {0} : h = HALF_BLOCK_SIZE BY HalfBlock
    <3>2. m \in 1 .. h BY <3>1
    <3>3. (b - 1) * h + m \in 1 .. n * h
      BY <2>1, <3>2, Within, Zenon
    <3>4. n * h \in Nat BY ONLY h \in Nat \ {0}, n \in Nat \ {0}
    <3>5. (b - 1) * h + m <= n * h + 0 BY ONLY <3>3, <3>4
    <3> QED BY <1>7, <2>1, <3>1, <3>5, Zenon DEF Copies
  <2> QED BY <2>2, <2>3, <2>4, <2>5
<1>11. InBlocks(t) = [b \in 1 .. n |-> content[b]] BY <1>8, <1>10, Cuts
<1>12. answer' = [k \in 1 .. n |-> Stored[a + k - 1]]
  BY <1>1, <1>4, <1>6, <1>9, <1>11
<1>13. a \in Blocks /\ n \in 1 .. 255 /\ a + n - 1 \in Blocks
  <2>1. /\ n - 1 \in Nat /\ n - 1 < n /\ a + (n - 1) = a + n - 1
    BY ONLY n \in Nat \ {0}, a \in Nat
  <2>2. a + (n - 1) \in Blocks BY <1>1, <1>4, <2>1, BlockOf, Zenon DEF IInv
  <2>3. n \in 1 .. MaxCount /\ a \in Blocks BY <1>1, <1>4 DEF IInv, Shape, IsCall
  <2>4. n \in 1 .. 255 BY ONLY <2>3, DiskAssumption, n \in Nat \ {0}
  <2> QED BY <2>1, <2>2, <2>3, <2>4, Zenon
<1>14. Stored' = Stored BY <1>1, SameDevice
<1> QED BY <1>1, <1>12, <1>13, <1>14 DEF Reads

\* A busy device has no part of a block.
LEMMA BusyBlock ==
    ASSUME IInv, faults = {}, device.phase = "busy"
    PROVE  device.op = "read" \/ device.buffer = <<>> \/ Len(device.buffer) = HALF_BLOCK_SIZE
<1>1. CASE pc \in {"idle", "start", "command"}
  BY <1>1 DEF IInv, InStep, AtRest, Quiet
<1>2. CASE pc = "busy wait"
  <2>1. UnderWay /\ call.op \in {"read", "write"} /\ j = 0
    BY <1>2, LoopNumbers DEF IInv, InStep
  <2>2. CASE call.op = "read" BY <2>1, <2>2 DEF UnderWay, Reading, At
  <2>3. CASE call.op = "write"
    <3>1. Len(device.buffer) = j \/ Len(device.buffer) = HALF_BLOCK_SIZE
      BY <2>1, <2>3 DEF UnderWay, Writing
    <3>2. PICK t \in Seq(Words) : t = device.buffer BY DeviceFields DEF IInv, Shape
    <3>3. Len(t) = 0 => t = <<>> BY ONLY t \in Seq(Words)
    <3> QED BY <2>1, <3>1, <3>2, <3>3, Zenon
  <2> QED BY <2>1, <2>2, <2>3
<1>3. CASE pc \in {"ready wait", "words"} BY <1>3 DEF IInv, InStep, UnderWay
<1> QED BY <1>1, <1>2, <1>3 DEF IInv, Shape, Labels

LEMMA WorkSettles ==
    ASSUME IInv, faults = {}, Work
    PROVE  Settles \/ Stays
<1>0. answer' = answer BY DEF Work, driverVars
<1>1. CASE device.op = "read"
  <2>1. device'.op = "read" /\ disk' = disk BY <1>1, WorkEffect DEF IInv, Resting
  <2> QED BY <1>0, <1>1, <2>1, EmptyBuffer, EmptyBufferNext DEF Stays
<1>2. CASE device.op = "write" /\ device.buffer = <<>>
  <2>1. device'.buffer = <<>> /\ disk' = disk BY <1>2, WorkEffect DEF IInv, Resting
  <2> QED BY <1>0, <1>2, <2>1, EmptyBuffer, EmptyBufferNext DEF Stays
<1>3. CASE device.op = "write" /\ device.buffer # <<>> /\ device.block \in Blocks
  <2>1. Len(device.buffer) = HALF_BLOCK_SIZE BY <1>3, BusyBlock DEF Work, Bsy
  <2>2. disk \in [Blocks -> BlockContents] BY DEF IInv, InStep
  <2>3. disk' = Stored /\ Stored' = Stored BY <1>3, <2>1, <2>2, StoreEffect
  <2> QED BY <1>0, <2>3 DEF Settles
<1>4. CASE device.op = "write" /\ device.buffer # <<>> /\ device.block \notin Blocks
  <2>1. device' = Resting /\ disk' = disk BY <1>4, WorkEffect DEF IInv
  <2>2. Stored' = disk' BY <2>1, EmptyBufferNext DEF Resting
  <2>3. Stored = disk
    <3>1. DOMAIN disk = Blocks BY DEF IInv, InStep
    <3>2. [disk EXCEPT ![device.block] = device.buffer] = disk
      BY <1>4 DEF IInv, InStep
    <3> QED BY <3>2 DEF Stored
  <2> QED BY <1>0, <2>1, <2>2, <2>3 DEF Stays
<1>5. device.op \in {"read", "write"} BY DeviceFields DEF IInv, Shape
<1> QED BY <1>1, <1>2, <1>3, <1>4, <1>5

LEMMA StepKinds ==
    ASSUME IInv, faults = {}, [Next]_vars
    PROVE  Asks \/ Stays \/ Crashes \/ Settles \/ Writes \/ Reads
<1>1. CASE Call
  <2>1. device' = device /\ disk' = disk /\ answer' = <<>> BY <1>1 DEF Call
  <2> QED BY <2>1, SameDevice DEF Asks
<1>2. CASE SetPorts \/ BusyWait \/ ReadyWait
  <2>1. device' = device /\ disk' = disk /\ answer' = answer
    BY <1>2 DEF SetPorts, BusyWait, ReadyWait, Goto
  <2> QED BY <2>1, SameDevice DEF Stays
<1>3. CASE Command BY <1>3, CommandKeeps
<1>4. CASE Word BY <1>4, WordKeeps
<1>5. CASE Return
  <2>1. CASE call.op = "read" BY <1>5, <2>1, ReturnReads
  <2>2. CASE call.op # "read"
    <3>1. device' = device /\ disk' = disk /\ answer' = answer
      BY <1>5, <2>2 DEF Return
    <3> QED BY <3>1, SameDevice DEF Stays
  <2> QED BY <2>1, <2>2
<1>6. CASE Notice BY <1>6 DEF Notice, IInv, Aimed
<1>7. CASE Work BY <1>7, WorkSettles
<1>8. CASE PowerCycle
  <2>1. device' = Resting /\ disk' = disk /\ answer' = <<>> BY <1>8 DEF PowerCycle
  <2>2. Stored' = disk' BY <2>1, EmptyBufferNext DEF Resting
  <2> QED BY <2>1, <2>2 DEF Crashes
<1>9. CASE UNCHANGED vars
  <2>1. device' = device /\ disk' = disk /\ answer' = answer
    BY <1>9 DEF vars, driverVars
  <2> QED BY <2>1, SameDevice DEF Stays
<1> QED BY <1>1, <1>2, <1>3, <1>4, <1>5, <1>6, <1>7, <1>8, <1>9 DEF Next, Driver

LEMMA FaultsStay == [Next]_vars => faults' = faults
BY DEF Next, Driver, Call, SetPorts, Command, BusyWait, ReadyWait, Word, Return,
   Notice, Work, PowerCycle, vars

LEMMA StepMaps ==
    ASSUME IInv, [Next]_vars
    PROVE  [Abstract!Next]_<<Promised(Stored), Promised(disk),
                             IF faults = {} THEN answer ELSE <<>>>>
<1>1. faults' = faults BY FaultsStay
<1>2. CASE faults # {}
  BY <1>1, <1>2 DEF Promised
<1>3. CASE faults = {}
  <2>1. /\ Promised(Stored) = Stored /\ Promised(disk) = disk
        /\ (IF faults = {} THEN answer ELSE <<>>) = answer
    BY <1>3 DEF Promised
  <2>2. /\ (Promised(Stored))' = Stored' /\ (Promised(disk))' = disk'
        /\ (IF faults = {} THEN answer ELSE <<>>)' = answer'
    BY <1>1, <1>3 DEF Promised
  <2>3. CASE Asks BY <2>1, <2>2, <2>3 DEF Asks, Abstract!Next, Abstract!Ask
  <2>4. CASE Stays BY <2>1, <2>2, <2>4 DEF Stays
  <2>5. CASE Crashes BY <2>1, <2>2, <2>5 DEF Crashes, Abstract!Next, Abstract!Crash
  <2>6. CASE Settles BY <2>1, <2>2, <2>6 DEF Settles, Abstract!Next, Abstract!Settle
  <2>7. CASE Writes
    <3>1. PICK a \in Blocks, content \in BlockContents :
            /\ disk = Stored
            /\ Stored' = [Stored EXCEPT ![a] = content]
            /\ UNCHANGED <<disk, answer>>
      BY <2>7, Zenon DEF Writes
    <3>2. Abstract!WriteBlock(a, content)
      BY <2>1, <2>2, <3>1 DEF Abstract!WriteBlock
    <3> QED BY <3>2, Zenon DEF Abstract!Next
  <2>8. CASE Reads
    <3>0. PICK a \in Blocks : \E count \in {n \in 1 .. 255 : a + n - 1 \in Blocks} :
            /\ answer' = [k \in 1 .. count |-> Stored[a + k - 1]]
            /\ UNCHANGED <<Stored, disk>>
      BY <2>8, Zenon DEF Reads
    <3>1. PICK count \in {n \in 1 .. 255 : a + n - 1 \in Blocks} :
            /\ answer' = [k \in 1 .. count |-> Stored[a + k - 1]]
            /\ UNCHANGED <<Stored, disk>>
      BY <3>0
    <3>2. Abstract!ReadBlocks(a, count)
      BY <2>1, <2>2, <3>1 DEF Abstract!ReadBlocks
    <3> QED BY <3>2, Zenon DEF Abstract!Next
  <2> QED BY <1>3, <2>3, <2>4, <2>5, <2>6, <2>7, <2>8, StepKinds
<1> QED BY <1>2, <1>3

LEMMA InitMaps == Init => Abstract!Init
<1> SUFFICES ASSUME Init PROVE Abstract!Init OBVIOUS
<1>1. disk \in [Blocks -> BlockContents] BY DEF Init, BlockContents
<1>2. Stored = disk BY EmptyBuffer DEF Init, Resting
<1>3. answer = <<>> BY DEF Init
<1>4. CASE faults = {} BY <1>1, <1>2, <1>3, <1>4 DEF Abstract!Init, Promised
<1>5. CASE faults # {}
  <2>1. (CHOOSE d \in [Blocks -> BlockContents] : TRUE) \in [Blocks -> BlockContents]
    BY <1>1
  <2> QED BY <1>5, <2>1 DEF Abstract!Init, Promised
<1> QED BY <1>4, <1>5

\* The driver and the device keep blocks: what read_blocks gives is what was
\* written last, and a machine that stops loses at most the block that the
\* device had not stored.
THEOREM DriverImplementsBlocks == Spec => BlocksKept
<1>1. IInv /\ [Next]_vars =>
        [Abstract!Next]_<<Promised(Stored), Promised(disk),
                          IF faults = {} THEN answer ELSE <<>>>>
  BY StepMaps
<1> QED BY <1>1, InitMaps, InitInv, NextInv, PTL DEF Spec, BlocksKept, Abstract!Spec

=============================================================================
