--------------------------- MODULE StcFlashProofs ---------------------------
(***************************************************************************)
(* Proof about StcFlash: that a success reported means the image is in the *)
(* flash, but where a garbled write was for or went to, for every file,    *)
(* geometry and transport and however often the line loses or garbles what *)
(* is under way in either direction.                                       *)
(***************************************************************************)
EXTENDS StcFlash, TLAPS, FiniteSetTheorems, WellFoundedInduction

-------------------------------------------------------------------------------
(* The file's image. *)

\* The flash with the image's first n bytes in it, and with all of it.
Filled(n) == [a \in Address |->
                IF a < n /\ a \in DOMAIN Padded(file) THEN Padded(file)[a] ELSE Erased]
Image == [a \in Address |-> IF a \in Written(file) THEN ValueAt(file, a) ELSE Erased]

\* What the property asks of a file: it starts at 0, and the part holds it.
Fits == Lowest(file) = 0 /\ Written(file) \subseteq Address

\* A set of addresses has a last one.
LEMMA LastAddress ==
  ASSUME NEW S \in SUBSET Address, S # {}
  PROVE  Max(S) \in S /\ \A y \in S : y <= Max(S)
<1> DEFINE Bounds == {n \in Nat : \A x \in S : x <= n}
<1>1. FlashSize \in Bounds BY FlashAssumption DEF Address
<1>2. \E u \in Bounds : \A y \in Bounds : ~(<< y, u >> \in OpToRel(<, Nat))
  BY <1>1, NatLessThanWellFounded, WFMin, Bounds \subseteq Nat
<1>3. PICK u \in Bounds : \A y \in Bounds : ~(<< y, u >> \in OpToRel(<, Nat)) BY <1>2
<1>4. \A y \in Nat, z \in Nat : y < z => << y, z >> \in OpToRel(<, Nat) BY Zenon DEF OpToRel
<1>5. \A y \in Bounds : ~(y < u) BY <1>3, <1>4, Bounds \subseteq Nat, Zenon
<1>6. u \in S
  <2> SUFFICES ASSUME u \notin S PROVE FALSE OBVIOUS
  <2>1. \A x \in S : x \in Nat /\ x < u BY DEF Address
  <2>2. PICK x \in S : TRUE OBVIOUS
  <2>3. u - 1 \in Nat BY <2>1, <2>2
  <2>4. u - 1 \in Bounds BY <2>1, <2>3
  <2> QED BY <2>4, <1>5
<1>7. \A y \in S : u >= y OBVIOUS
<1>8. Max(S) \in S /\ \A y \in S : Max(S) >= y
  <2> HIDE DEF Bounds
  <2> QED BY <1>6, <1>7, Zenon DEF Max
<1> QED BY <1>8 DEF Address

\* A number rounded up to whole units is no less, and less than a unit more.
LEMMA RoundUp ==
  ASSUME NEW c \in Nat \ {0}, NEW x \in Nat
  PROVE  /\ (x + c - 1) \div c \in Nat
         /\ x <= ((x + c - 1) \div c) * c
<1> DEFINE y == x + c - 1
<1>1. y \in Nat OBVIOUS
<1> HIDE DEF y
<1>2. y \div c \in Nat /\ y < (y \div c) * c + c BY <1>1, SMTT(30)
<1>3. (y \div c) * c \in Nat BY <1>2
<1> QED BY <1>2, <1>3 DEF y

\* An erase unit is a number of whole blocks.
LEMMA UnitsAreBlocks == \E q \in Nat : EraseUnit = q * Block
<1>1. EraseUnit \in Nat \ {0} /\ Block \in Nat \ {0} /\ EraseUnit % Block = 0
  BY FlashAssumption
<1>2. EraseUnit \div Block \in Nat /\ EraseUnit = (EraseUnit \div Block) * Block
  BY <1>1, SMTT(30)
<1> QED BY <1>2

\* Products of naturals are naturals, and associate.
LEMMA Times ==
  ASSUME NEW a \in Nat, NEW b \in Nat, NEW c \in Nat
  PROVE  a * b \in Nat /\ a * (b * c) = (a * b) * c
  BY SMTT(30)

\* A file that fits is padded to a whole number of blocks, of which there is one at
\* least, and all it writes is among them.
LEMMA PaddedFacts ==
  ASSUME Fits, Parses(file)
  PROVE  /\ DOMAIN Padded(file) = 0 .. PaddedSize(file) - 1
         /\ PaddedSize(file) \in Nat \ {0}
         /\ \E k \in Nat : PaddedSize(file) = k * Block
         /\ Written(file) \subseteq DOMAIN Padded(file)
         /\ \A n \in DOMAIN Padded(file) :
              Padded(file)[n] = IF n \in Written(file) THEN ValueAt(file, n) ELSE Erased
<1> DEFINE last == Max(Written(file))
           size == last - Lowest(file) + 1
           units == (size + EraseUnit - 1) \div EraseUnit
           N == units * EraseUnit
<1>1. Written(file) # {} /\ Written(file) \subseteq Address BY DEF Fits, Parses
<1>2. last \in Written(file) /\ \A y \in Written(file) : y <= last
  BY <1>1, LastAddress, Zenon
<1>3. last \in Nat BY <1>1, <1>2 DEF Address
<1>4. Lowest(file) = 0 BY DEF Fits
<1> HIDE DEF last
<1>5. size = last + 1 /\ size \in Nat BY <1>3, <1>4
<1>6. EraseUnit \in Nat \ {0} /\ Block \in Nat \ {0} BY FlashAssumption
<1>7. units \in Nat /\ size <= N BY <1>5, <1>6, RoundUp
<1>8. Padded(file) = [n \in 0 .. N - 1 |->
         IF n + Lowest(file) \in Written(file) THEN ValueAt(file, n + Lowest(file)) ELSE Erased]
  BY Zenon DEF Padded, last
<1> HIDE DEF size, units
<1>9. N \in Nat /\ N # 0 BY <1>5, <1>6, <1>7, <1>3, Times
<1>10. PICK q \in Nat : EraseUnit = q * Block BY UnitsAreBlocks
<1>11. N = (units * q) * Block /\ units * q \in Nat BY <1>6, <1>7, <1>10, Times
<1> HIDE DEF N
<1>12. DOMAIN Padded(file) = 0 .. N - 1 BY <1>8
<1>13. Cardinality(0 .. N - 1) = N BY <1>9, FS_Interval
<1>14. PaddedSize(file) = N BY <1>12, <1>13, Zenon DEF PaddedSize
<1>15. \A n \in 0 .. N - 1 : n + Lowest(file) = n BY <1>4
<1>16. \A n \in 0 .. N - 1 :
         Padded(file)[n] = IF n \in Written(file) THEN ValueAt(file, n) ELSE Erased
  BY <1>8, <1>15, Zenon
<1>17. Written(file) \subseteq 0 .. N - 1
  BY <1>1, <1>2, <1>3, <1>5, <1>7, <1>9 DEF Address
<1>18. \E k \in Nat : N = k * Block BY <1>11, Zenon
<1> QED BY <1>9, <1>12, <1>14, <1>16, <1>17, <1>18

\* The erased flash has nothing of the image yet.
LEMMA FilledNone == Filled(0) = [a \in Address |-> Erased]
  BY FlashAssumption DEF Filled, Address

\* With the last block in it, it has all.
LEMMA FilledAll ==
  ASSUME Fits, Parses(file), NEW n \in Nat, n >= PaddedSize(file)
  PROVE  Filled(n) = Image
<1>1. \A a \in Address : a \in DOMAIN Padded(file) => a < n
  <2>1. DOMAIN Padded(file) = 0 .. PaddedSize(file) - 1 /\ PaddedSize(file) \in Nat
    BY PaddedFacts
  <2> QED BY <2>1 DEF Address
<1>2. \A a \in Address : a \notin DOMAIN Padded(file) => a \notin Written(file)
  BY PaddedFacts, Zenon
<1>3. \A a \in Address : a \in DOMAIN Padded(file) =>
         Padded(file)[a] = IF a \in Written(file) THEN ValueAt(file, a) ELSE Erased
  BY PaddedFacts, Zenon
<1> QED BY <1>1, <1>2, <1>3, Zenon DEF Filled, Image

\* A multiple of a block below another is a block below it.
LEMMA NextMultiple ==
  ASSUME NEW c \in Nat \ {0}, NEW j \in Nat, NEW k \in Nat, j * c < k * c
  PROVE  j * c + c <= k * c /\ j * c + c = (j + 1) * c
<1>1. j < k
  <2> SUFFICES ASSUME k <= j PROVE k * c <= j * c
    BY Times
  <2> QED BY SMTT(30)
<1>2. (j + 1) * c <= k * c BY <1>1, SMTT(30)
<1> QED BY <1>2, SMTT(30)

\* A write leaves the flash with its block in it, after all before.
LEMMA BlockFills ==
  ASSUME Fits, Parses(file), NEW k \in Nat, k * Block < PaddedSize(file)
  PROVE  Programmed(Filled(k * Block), WriteAt(k * Block)) = Filled(k * Block + Block)
<1> DEFINE o == k * Block
<1>1. Block \in Nat \ {0} BY FlashAssumption
<1>2. o \in Nat BY <1>1, Times
<1>3. PICK m \in Nat : PaddedSize(file) = m * Block BY PaddedFacts
<1>4. o + Block <= PaddedSize(file) BY <1>1, <1>3, NextMultiple
<1> HIDE DEF o
<1>5. DOMAIN Padded(file) = 0 .. PaddedSize(file) - 1 /\ PaddedSize(file) \in Nat
  BY PaddedFacts
<1> DEFINE chunk == [b \in 0 .. Block - 1 |-> Padded(file)[o + b]]
<1>6. WriteAt(o).chunk = chunk /\ WriteAt(o).offset = o BY Zenon DEF WriteAt
<1>7. Programmed(Filled(o), WriteAt(o)) =
        [a \in Address |-> IF a - o \in DOMAIN chunk THEN chunk[a - o] ELSE Filled(o)[a]]
  BY <1>6, Zenon DEF Programmed
<1>8. \A a \in Address :
        (IF a - o \in DOMAIN chunk THEN chunk[a - o] ELSE Filled(o)[a]) = Filled(o + Block)[a]
  <2> TAKE a \in Address
  <2>1. a \in Nat BY DEF Address
  <2>2. CASE a < o
    <3>1. a - o \notin DOMAIN chunk BY <1>1, <1>2, <2>1, <2>2
    <3>2. Filled(o)[a] = Filled(o + Block)[a] BY <1>1, <1>2, <2>1, <2>2 DEF Filled
    <3> QED BY <3>1, <3>2, Zenon
  <2>3. CASE o <= a /\ a < o + Block
    <3>1. a - o \in DOMAIN chunk /\ o + (a - o) = a BY <1>1, <1>2, <2>1, <2>3
    <3>2. chunk[a - o] = Padded(file)[a] BY <3>1
    <3>3. a \in DOMAIN Padded(file) BY <1>1, <1>2, <1>4, <1>5, <2>1, <2>3
    <3>4. Filled(o + Block)[a] = Padded(file)[a] BY <2>3, <3>3 DEF Filled
    <3> QED BY <3>1, <3>2, <3>4, Zenon
  <2>4. CASE o + Block <= a
    <3>1. a - o \notin DOMAIN chunk BY <1>1, <1>2, <2>1, <2>4
    <3>2. ~(a < o) /\ ~(a < o + Block) BY <1>1, <1>2, <2>1, <2>4
    <3>3. Filled(o)[a] = Filled(o + Block)[a] BY <3>2, Zenon DEF Filled
    <3> QED BY <3>1, <3>3, Zenon
  <2> QED BY <1>1, <1>2, <2>1, <2>2, <2>3, <2>4
<1>9. Filled(o + Block) = [a \in Address |-> Filled(o + Block)[a]] BY Zenon DEF Filled
<1> HIDE DEF chunk
<1>10. Programmed(Filled(o), WriteAt(o)) = Filled(o + Block)
  <2> DEFINE f == [a \in Address |-> IF a - o \in DOMAIN chunk THEN chunk[a - o] ELSE Filled(o)[a]]
             g == [a \in Address |-> Filled(o + Block)[a]]
  <2>1. f = g BY <1>8, Zenon
  <2> QED BY <1>7, <1>9, <2>1, Zenon
<1> QED BY <1>10 DEF o

\* Two contents of the flash that differ at the addresses in doubt only.
Matches(flash, image, d) == \A a \in Address \ d : flash[a] = image[a]

\* What is under way for a command is that command, or what the line made of it: then
\* the addresses of both are in doubt.
Carries(message, command, d) ==
  \/ message = command
  \/ message \in Damaged /\ Reach(command) \subseteq d /\ Reach(message) \subseteq d

\* A write leaves the flash with its block in it, after all before, but for what is in
\* doubt; so does a damaged one.
LEMMA BlockWritten ==
  ASSUME Fits, Parses(file), NEW k \in Nat, k * Block < PaddedSize(file), NEW f, NEW d, NEW m,
         Matches(f, Filled(k * Block), d), Carries(m, WriteAt(k * Block), d)
  PROVE  Matches(Programmed(f, m), Filled(k * Block + Block), d)
<1> DEFINE o == k * Block
           w == WriteAt(o)
           g == Filled(o)
           h == Filled(o + Block)
<1>1. Programmed(g, w) = h BY BlockFills, Zenon
<1>2. Matches(f, g, d) /\ Carries(m, w, d) OBVIOUS
<1> SUFFICES ASSUME NEW a \in Address, a \notin d PROVE Programmed(f, m)[a] = h[a]
    BY Zenon DEF Matches
<1> HIDE DEF g, h, w, o
<1>3. f[a] = g[a] BY <1>2 DEF Matches
<1>4. \A x, y : Programmed(x, y)[a] =
                  IF a - y.offset \in DOMAIN y.chunk THEN y.chunk[a - y.offset] ELSE x[a]
  BY Zenon DEF Programmed
<1>5. CASE m = w
  <2>1. Programmed(f, w)[a] = Programmed(g, w)[a] BY <1>3, <1>4, Zenon
  <2> QED BY <1>1, <1>5, <2>1, Zenon
<1>6. CASE Reach(w) \subseteq d /\ Reach(m) \subseteq d
  <2>1. a \notin Reach(w) /\ a \notin Reach(m) BY <1>6
  <2>2. a - w.offset \notin DOMAIN w.chunk /\ a - m.offset \notin DOMAIN m.chunk
    BY <2>1, Zenon DEF Reach
  <2>3. Programmed(f, m)[a] = f[a] /\ Programmed(g, w)[a] = g[a] BY <1>4, <2>2, Zenon
  <2> QED BY <1>1, <1>3, <2>3, Zenon
<1> QED BY <1>2, <1>5, <1>6, Zenon DEF Carries

\* A write that reaches addresses in doubt only changes nothing else.
LEMMA StrayWritten ==
  ASSUME NEW f, NEW g, NEW d, NEW m, Matches(f, g, d), Reach(m) \subseteq d
  PROVE  Matches(Programmed(f, m), g, d)
<1> SUFFICES ASSUME NEW a \in Address, a \notin d PROVE Programmed(f, m)[a] = g[a]
    BY Zenon DEF Matches
<1>1. a - m.offset \notin DOMAIN m.chunk BY Zenon DEF Reach
<1>2. Programmed(f, m)[a] = f[a] BY <1>1, Zenon DEF Programmed
<1>3. f[a] = g[a] BY DEF Matches
<1> QED BY <1>2, <1>3

\* With more in doubt, what matched still does, and what carried a command too.
LEMMA MoreDoubt ==
  ASSUME NEW d, NEW e, d \subseteq e
  PROVE  /\ \A f, g : Matches(f, g, d) => Matches(f, g, e)
         /\ \A m, c : Carries(m, c, d) => Carries(m, c, e)
<1>1. \A f, g : Matches(f, g, d) => Matches(f, g, e) BY Zenon DEF Matches
<1>2. \A m, c : Carries(m, c, d) => Carries(m, c, e) BY Zenon DEF Carries
<1> QED BY <1>1, <1>2, Zenon

\* A damaged message is a command, if another.
LEMMA DamagedFacts ==
  /\ \A m \in Damaged : m.command # "pulse"
  /\ \A m, c, d : Carries(m, c, d) /\ c.command # "pulse" => m.command # "pulse"
<1>1. ASSUME NEW m \in Damaged PROVE m.command # "pulse"
  <2>1. CASE m \in Stray BY <2>1, FlashAssumption
  <2>2. CASE \E c \in Command : m = Message(c)
    <3>1. PICK c \in Command : m = Message(c) BY <2>2
    <3>2. m.command = c BY <3>1 DEF Message
    <3> QED BY <3>2 DEF Command
  <2> QED BY <2>1, <2>2, Zenon DEF Damaged
<1>2. \A m, c, d : Carries(m, c, d) /\ c.command # "pulse" => m.command # "pulse"
  BY <1>1, Zenon DEF Carries
<1> QED BY <1>1, <1>2, Zenon

-------------------------------------------------------------------------------
(* The inductive invariant. *)

\* From the handshake's reply on one command at a time is under way.
Quiet == {"baudtest", "baudswitch", "erase", "write", "finish"}

\* The command of a phase: the host reads its reply, but for the reset's, which has none.
Waiting ==
  CASE host.phase = "handshake" -> Message("handshake")
    [] host.phase = "baudtest" -> Message("baud test")
    [] host.phase = "baudswitch" -> Message("baud switch")
    [] host.phase = "erase" -> Message("erase")
    [] host.phase = "write" -> WriteAt(host.offset)
    [] host.phase = "finish" -> Message("finish")
    [] OTHER -> Message("reset")

Replies == {i \in DOMAIN toHost : toHost[i].part = "rest"}
Says(line, code) == \E i \in DOMAIN line : line[i].part = "rest" /\ line[i].code = code
UnderWay(line) == \E i \in DOMAIN line : line[i].command # "pulse"

\* A sequence, of whatever it holds.
IsSeq(s) == s \in Seq(Range(s))

Shape ==
  /\ {"phase", "reading", "offset", "magic"} \subseteq DOMAIN host
  /\ {"state", "magic", "flash"} \subseteq DOMAIN mcu
  /\ host.phase \in {"greeting", "handshake", "done", "failed"} \cup Quiet
  /\ host.phase \in {"done", "failed"} => host.reading = "none"
  /\ host.phase # "failed" => Parses(file)
  /\ IsSeq(toMcu) /\ IsSeq(toHost)

\* Behind a command there is nothing under way to the boot ROM.
Alone == \A i \in DOMAIN toMcu : toMcu[i].command = "pulse" \/ i = Len(toMcu)

\* Until the handshake is answered there are pulses ahead of it, and only status packets
\* ahead of its answer.
Greeted ==
  host.phase \in {"greeting", "handshake"} =>
    /\ \A i \in DOMAIN toMcu :
         \/ toMcu[i] = Message("pulse")
         \/ /\ host.phase = "handshake" /\ i = Len(toMcu)
            /\ Carries(toMcu[i], Waiting, doubt)
    /\ \A i \in Replies :
         \/ toHost[i].code = "00"
         \/ host.phase = "handshake" /\ i = Len(toHost) /\ toMcu = <<>>

\* From then on there is the command under way, or its reply, or neither.
Alternates ==
  /\ host.phase \in Quiet =>
       /\ Len(toMcu) <= 1 /\ \A i \in DOMAIN toMcu : Carries(toMcu[i], Waiting, doubt)
       /\ toMcu # <<>> => toHost = <<>>
       /\ \A i \in Replies : i = Len(toHost)
  /\ host.phase = "done" => \A i \in DOMAIN toMcu : Carries(toMcu[i], Waiting, doubt)

\* What the host knows of the part is what the part said.
Knows ==
  /\ mcu.magic \in Magic
  /\ \A i \in DOMAIN toHost : toHost[i].magic \in {"none", mcu.magic}
  /\ host.phase \notin {"greeting", "failed"} => host.magic = mcu.magic

\* The state a command finds the boot ROM in and its reply leaves it in.  A damaged one
\* is refused there, or harmless, or brings a reply the host does not take.
Early == {"idle", "detected"}
Late == {"programming", "done"}
Staged ==
  /\ host.phase = "greeting" => mcu.state \in Early
  /\ host.phase = "handshake" /\ UnderWay(toMcu) => mcu.state \in Early
  /\ host.phase \in {"baudtest", "baudswitch"} /\ toMcu # <<>> => mcu.state \in Early
  /\ host.phase \in {"handshake", "baudtest"} /\ Says(toHost, "8F") => mcu.state \in Early
  /\ host.phase = "baudswitch" /\ Says(toHost, "84") => mcu.state = "negotiated"
  /\ host.phase = "erase" /\ toMcu # <<>> => mcu.state = "negotiated"
  /\ host.phase = "erase" /\ Says(toHost, "00") => mcu.state = "programming"
  /\ host.phase = "write" /\ (toMcu # <<>> \/ Says(toHost, "00")) => mcu.state = "programming"
  /\ host.phase \in {"finish", "done"} => mcu.state \in Late

\* A part of another protocol is left before the erase, with nothing on its way that it
\* would take for one.
Foreign ==
  mcu.magic = "stc15" =>
    /\ host.phase \notin {"erase", "write", "finish", "done"}
    /\ mcu.state \notin Late
    /\ UnderWay(toMcu) => mcu.state \in Early
    /\ Unharmed

\* A reply to a write says that its block is in the flash, after all before it, but for
\* what is in doubt.
Filling ==
  Fits =>
    /\ host.phase = "erase" /\ Says(toHost, "00") => Matches(mcu.flash, Filled(0), doubt)
    /\ host.phase = "write" =>
         /\ \E k \in Nat : host.offset = k * Block
         /\ host.offset < PaddedSize(file)
         /\ toMcu # <<>> => Matches(mcu.flash, Filled(host.offset), doubt)
         /\ Says(toHost, "00") => Matches(mcu.flash, Filled(host.offset + Block), doubt)
    /\ host.phase \in {"finish", "done"} => Matches(mcu.flash, Image, doubt)

IInv == Shape /\ Alone /\ Greeted /\ Alternates /\ Knows /\ Staged /\ Foreign /\ Filling

-------------------------------------------------------------------------------
(* What the line and the readers leave of a sequence. *)

\* t is what is left of s: nothing new, and its last still the last.
Thins(s, t) ==
  /\ IsSeq(t) /\ Len(t) <= Len(s)
  /\ \A i \in DOMAIN t : \E j \in DOMAIN s : t[i] = s[j] /\ (j = Len(s) => i = Len(t))

\* The same, and some of it may be noise.
Garbled(s, t) ==
  /\ IsSeq(t) /\ Len(t) <= Len(s)
  /\ \A i \in DOMAIN t :
       \/ t[i] = Byte("noise")
       \/ \E j \in DOMAIN s : t[i] = s[j] /\ (j = Len(s) => i = Len(t))

\* A sequence is a function on its indices.
LEMMA SeqFacts ==
  ASSUME NEW s, IsSeq(s)
  PROVE  /\ Len(s) \in Nat /\ DOMAIN s = 1 .. Len(s)
         /\ s # <<>> <=> Len(s) > 0
         /\ s # <<>> => Head(s) = s[1]
  BY DEF IsSeq

\* A sequence of length 0 is the empty one.
LEMMA NoneLeft == ASSUME NEW s, IsSeq(s), Len(s) = 0 PROVE s = <<>>
  BY SeqFacts

\* A sequence over any set is a sequence of what it holds.
LEMMA SeqIsSeq == ASSUME NEW S, NEW s \in Seq(S) PROVE IsSeq(s)
<1>1. s \in [1 .. Len(s) -> S] /\ Len(s) \in Nat OBVIOUS
<1>2. \A i \in 1 .. Len(s) : s[i] \in Range(s) BY DEF Range
<1>3. s = [i \in 1 .. Len(s) |-> s[i]] BY <1>1
<1>4. s \in [1 .. Len(s) -> Range(s)] BY <1>1, <1>2, <1>3
<1> QED BY <1>1, <1>4 DEF IsSeq

\* The empty sequence is one.
LEMMA EmptyIsSeq == IsSeq(<<>>) /\ Len(<<>>) = 0 /\ DOMAIN <<>> = {}
  BY DEF IsSeq

\* The length and the elements of a concatenation.
LEMMA ConcatFacts ==
  ASSUME NEW S, NEW a \in Seq(S), NEW b \in Seq(S)
  PROVE  /\ a \o b \in Seq(S) /\ Len(a \o b) = Len(a) + Len(b)
         /\ \A i \in 1 .. Len(a) : (a \o b)[i] = a[i]
         /\ \A i \in 1 .. Len(b) : (a \o b)[Len(a) + i] = b[i]
  OBVIOUS

\* A packet has four parts.
LEMMA FourFacts ==
  ASSUME NEW a, NEW b, NEW c, NEW d
  PROVE  <<a, b, c, d>> \in Seq({a, b, c, d})
  OBVIOUS

\* The length and the elements of a tail.
LEMMA TailFacts ==
  ASSUME NEW s, IsSeq(s), s # <<>>
  PROVE  /\ IsSeq(Tail(s)) /\ Len(Tail(s)) = Len(s) - 1
         /\ \A i \in DOMAIN Tail(s) : Tail(s)[i] = s[i + 1]
<1>1. s \in Seq(Range(s)) BY DEF IsSeq
<1>2. Tail(s) \in Seq(Range(s)) /\ Len(Tail(s)) = Len(s) - 1 BY <1>1
<1>3. \A i \in 1 .. Len(Tail(s)) : Tail(s)[i] = s[i + 1] BY <1>1
<1>4. IsSeq(Tail(s)) BY <1>2, SeqIsSeq
<1> QED BY <1>2, <1>3, <1>4, SeqFacts

\* A sequence whose first was read is thinner.
LEMMA TailThins == ASSUME NEW s, IsSeq(s), s # <<>> PROVE Thins(s, Tail(s))
<1>1. Len(s) \in Nat /\ DOMAIN s = 1 .. Len(s) BY SeqFacts
<1>2. IsSeq(Tail(s)) /\ Len(Tail(s)) = Len(s) - 1 BY TailFacts
<1>3. DOMAIN Tail(s) = 1 .. Len(s) - 1 BY <1>2, SeqFacts
<1>4. \A i \in DOMAIN Tail(s) : Tail(s)[i] = s[i + 1] BY TailFacts
<1>5. \A i \in DOMAIN Tail(s) : i + 1 \in DOMAIN s /\ (i + 1 = Len(s) => i = Len(Tail(s)))
  BY <1>1, <1>2, <1>3
<1> QED BY <1>1, <1>2, <1>4, <1>5 DEF Thins

\* So is one with an element lost.
LEMMA RemoveThins ==
  ASSUME NEW s, IsSeq(s), NEW k \in DOMAIN s
  PROVE  Thins(s, RemoveAt(s, k))
<1> DEFINE a == SubSeq(s, 1, k - 1)
           b == SubSeq(s, k + 1, Len(s))
           t == RemoveAt(s, k)
<1>1. Len(s) \in Nat /\ DOMAIN s = 1 .. Len(s) /\ s \in Seq(Range(s)) BY SeqFacts DEF IsSeq
<1>2. k \in 1 .. Len(s) BY <1>1
<1>3. /\ a \in Seq(Range(s)) /\ Len(a) = k - 1
      /\ \A i \in 1 .. k - 1 : a[i] = s[i]
  BY <1>1, <1>2
<1>4. /\ b \in Seq(Range(s)) /\ Len(b) = Len(s) - k
      /\ \A i \in 1 .. Len(s) - k : b[i] = s[i + k]
  BY <1>1, <1>2
<1>5. t = a \o b BY Zenon DEF RemoveAt
<1> HIDE DEF a, b, t
<1>6. t \in Seq(Range(s)) /\ Len(t) = Len(s) - 1
  <2>1. t \in Seq(Range(s)) /\ Len(t) = Len(a) + Len(b) BY <1>3, <1>4, <1>5, ConcatFacts
  <2> QED BY <1>1, <1>2, <1>3, <1>4, <2>1
<1>7. IsSeq(t) /\ DOMAIN t = 1 .. Len(s) - 1 BY <1>6, SeqIsSeq
<1>8. ASSUME NEW i \in DOMAIN t
      PROVE  \E j \in DOMAIN s : t[i] = s[j] /\ (j = Len(s) => i = Len(t))
  <2>1. CASE i < k
    <3>1. t[i] = a[i] /\ i \in 1 .. k - 1 
      <4>1. i \in 1 .. Len(a) /\ Len(a) = k - 1 BY <1>1, <1>2, <1>3, <1>7, <2>1
      <4>2. (a \o b)[i] = a[i] BY <1>3, <1>4, <4>1, ConcatFacts
      <4> QED BY <1>5, <4>1, <4>2
    <3> QED BY <3>1, <1>1, <1>2, <1>3
  <2>2. CASE i >= k
    <3>1. t[i] = b[i - (k - 1)] /\ i - (k - 1) \in 1 .. Len(s) - k
      <4>1. i - (k - 1) \in 1 .. Len(s) - k /\ Len(b) = Len(s) - k /\ Len(a) + (i - (k - 1)) = i
        BY <1>1, <1>2, <1>3, <1>4, <1>7, <2>2
      <4>2. PICK n \in 1 .. Len(b) : n = i - (k - 1) BY <4>1
      <4>3. a \in Seq(Range(s)) /\ b \in Seq(Range(s)) BY <1>3, <1>4
      <4>4. \A h \in 1 .. Len(b) : (a \o b)[Len(a) + h] = b[h] BY <4>3, ConcatFacts
      <4>5. (a \o b)[Len(a) + n] = b[n] BY <4>2, <4>4, Zenon
      <4> QED BY <1>5, <4>1, <4>2, <4>5
    <3>2. t[i] = s[i - (k - 1) + k] BY <3>1, <1>4
    <3>3. i - (k - 1) + k = i + 1 /\ i + 1 \in DOMAIN s BY <1>1, <1>2, <1>7
    <3>4. i + 1 = Len(s) => i = Len(t) BY <1>1, <1>2, <1>6, <1>7
    <3> QED BY <3>2, <3>3, <3>4, Zenon
  <2> QED BY <1>1, <1>2, <1>7, <2>1, <2>2
<1>9. Len(t) <= Len(s) BY <1>1, <1>6
<1> QED BY <1>7, <1>8, <1>9 DEF Thins, t

\* Thinning is a garbling without noise.
LEMMA ThinsGarbled == ASSUME NEW s, NEW t, Thins(s, t) PROVE Garbled(s, t)
  BY Zenon DEF Thins, Garbled

\* Nothing has to be lost.
LEMMA SameThins == ASSUME NEW s, IsSeq(s) PROVE Thins(s, s)
  BY SeqFacts DEF Thins

\* Everything may be.
LEMMA NothingThins == ASSUME NEW s, IsSeq(s) PROVE Thins(s, <<>>)
  BY SeqFacts, EmptyIsSeq DEF Thins

\* An element turned into noise leaves the rest in its place.
LEMMA NoiseGarbles ==
  ASSUME NEW s, IsSeq(s), NEW k \in DOMAIN s
  PROVE  Garbled(s, [s EXCEPT ![k] = Byte("noise")])
<1> DEFINE t == [s EXCEPT ![k] = Byte("noise")]
<1>1. Len(s) \in Nat /\ DOMAIN s = 1 .. Len(s) /\ s \in Seq(Range(s)) BY SeqFacts DEF IsSeq
<1>2. t \in Seq(Range(s) \cup {Byte("noise")}) /\ Len(t) = Len(s) /\ DOMAIN t = DOMAIN s
  <2> DEFINE n == Byte("noise")
  <2> HIDE DEF n
  <2>1. [s EXCEPT ![k] = n] \in Seq(Range(s) \cup {n}) BY <1>1
  <2>2. Len([s EXCEPT ![k] = n]) = Len(s) /\ DOMAIN [s EXCEPT ![k] = n] = DOMAIN s BY <1>1, <2>1
  <2> QED BY <2>1, <2>2 DEF n
<1>3. \A i \in DOMAIN t : t[i] = Byte("noise") \/ t[i] = s[i] BY <1>2, Zenon
<1>4. IsSeq(t) BY <1>2, SeqIsSeq
<1> HIDE DEF t
<1>5. Len(t) <= Len(s) BY <1>1, <1>2
<1> QED BY <1>1, <1>2, <1>3, <1>4, <1>5 DEF Garbled, t

\* An element replaced leaves the rest in its place.
LEMMA ChangeFacts ==
  ASSUME NEW s, IsSeq(s), NEW k \in DOMAIN s, NEW m
  PROVE  LET t == [s EXCEPT ![k] = m] IN
         /\ IsSeq(t) /\ Len(t) = Len(s) /\ DOMAIN t = DOMAIN s
         /\ t[k] = m /\ \A i \in DOMAIN t : i # k => t[i] = s[i]
<1> DEFINE t == [s EXCEPT ![k] = m]
<1>1. Len(s) \in Nat /\ DOMAIN s = 1 .. Len(s) /\ s \in Seq(Range(s)) BY SeqFacts DEF IsSeq
<1>2. t \in Seq(Range(s) \cup {m}) BY <1>1
<1>3. Len(t) = Len(s) /\ DOMAIN t = DOMAIN s BY <1>1, <1>2
<1>4. IsSeq(t) BY <1>2, SeqIsSeq
<1>5. t[k] = m /\ \A i \in DOMAIN t : i # k => t[i] = s[i] BY <1>1, <1>3
<1> QED BY <1>3, <1>4, <1>5

\* What is sent is the last, after all that is under way.
LEMMA AppendFacts ==
  ASSUME NEW s, IsSeq(s), NEW m
  PROVE  /\ IsSeq(Append(s, m)) /\ Len(Append(s, m)) = Len(s) + 1
         /\ \A i \in DOMAIN Append(s, m) :
              \/ i \in DOMAIN s /\ i # Len(s) + 1 /\ Append(s, m)[i] = s[i]
              \/ i = Len(s) + 1 /\ Append(s, m)[i] = m
<1>1. s \in Seq(Range(s) \cup {m}) /\ Len(s) \in Nat /\ DOMAIN s = 1 .. Len(s) BY DEF IsSeq
<1>2. Append(s, m) \in Seq(Range(s) \cup {m}) /\ Len(Append(s, m)) = Len(s) + 1 BY <1>1
<1>3. DOMAIN Append(s, m) = 1 .. Len(s) + 1 BY <1>1, <1>2
<1>4. IsSeq(Append(s, m)) BY <1>2, SeqIsSeq
<1> QED BY <1>1, <1>2, <1>3, <1>4

\* The rest of a packet is its last.
LEMMA PacketFacts ==
  ASSUME NEW s, IsSeq(s), NEW c, NEW m
  PROVE  LET t == s \o Packet(c, m) IN
         /\ IsSeq(t) /\ Len(t) = Len(s) + 4
         /\ \A i \in DOMAIN t :
              \/ i \in DOMAIN s /\ t[i] = s[i]
              \/ t[i].part # "rest" /\ t[i].magic = "none"
              \/ i = Len(t) /\ t[i].code = c /\ t[i].magic = m
<1> DEFINE p == Packet(c, m)
           t == s \o p
<1>1. /\ Len(p) = 4 /\ p \in Seq(Range(p)) /\ DOMAIN p = 1 .. 4
      /\ \A i \in {1, 2, 3} : p[i].part # "rest" /\ p[i].magic = "none"
      /\ p[4].code = c /\ p[4].magic = m
  <2>1. p = << p[1], p[2], p[3], p[4] >> /\ Len(p) = 4 /\ DOMAIN p = 1 .. 4 BY DEF Packet
  <2>2. p[1] = Byte("F1") /\ p[2] = Byte("F2") /\ p[3] = Byte("DIR")
        /\ p[4] = [part |-> "rest", code |-> c, magic |-> m]
    BY DEF Packet
  <2>3. \A i \in {1, 2, 3} : p[i].part # "rest" /\ p[i].magic = "none" BY <2>2 DEF Byte
  <2>4. p[4].code = c /\ p[4].magic = m BY <2>2
  <2> HIDE DEF p
  <2>5. p \in Seq({p[1], p[2], p[3], p[4]})
    <3>1. << p[1], p[2], p[3], p[4] >> \in Seq({p[1], p[2], p[3], p[4]}) BY FourFacts, Zenon
    <3> QED BY <2>1, <3>1, Zenon
  <2>6. p \in Seq(Range(p)) BY <2>5, SeqIsSeq DEF IsSeq
  <2> QED BY <2>1, <2>3, <2>4, <2>6
<1>2. s \in Seq(Range(s)) /\ Len(s) \in Nat /\ DOMAIN s = 1 .. Len(s) BY DEF IsSeq
<1> HIDE DEF p
<1> DEFINE S == Range(s) \cup Range(p)
<1>3. s \in Seq(S) /\ p \in Seq(S) BY <1>1, <1>2
<1> HIDE DEF S
<1>4. t \in Seq(S) /\ Len(t) = Len(s) + 4
  <2>1. s \o p \in Seq(S) /\ Len(s \o p) = Len(s) + Len(p) BY <1>3, ConcatFacts, Zenon
  <2> QED BY <1>1, <2>1, Zenon
<1>5. IsSeq(t) /\ DOMAIN t = 1 .. Len(s) + 4 BY <1>4, SeqIsSeq, SeqFacts
<1>6. ASSUME NEW i \in DOMAIN t
      PROVE \/ i \in DOMAIN s /\ t[i] = s[i]
            \/ t[i].part # "rest" /\ t[i].magic = "none"
            \/ i = Len(t) /\ t[i].code = c /\ t[i].magic = m
  <2>1. CASE i <= Len(s)
    <3>1. i \in 1 .. Len(s) BY <1>2, <1>5, <2>1
    <3>2. t[i] = s[i] BY <1>3, <3>1, ConcatFacts
    <3> QED BY <1>2, <3>1, <3>2
  <2>2. CASE i > Len(s)
    <3>1. t[i] = p[i - Len(s)] /\ i - Len(s) \in 1 .. 4
      <4>1. i - Len(s) \in 1 .. Len(p) /\ Len(s) + (i - Len(s)) = i BY <1>1, <1>2, <1>5, <2>2
      <4>2. t[Len(s) + (i - Len(s))] = p[i - Len(s)] BY <1>3, <4>1, ConcatFacts
      <4> QED BY <1>1, <4>1, <4>2
    <3>2. i - Len(s) = 4 => i = Len(t) BY <1>2, <1>4, <1>5
    <3>3. i - Len(s) \in {1, 2, 3} \/ i - Len(s) = 4 BY <3>1
    <3> HIDE DEF t
    <3> QED BY <1>1, <3>1, <3>2, <3>3
  <2> QED BY <1>2, <1>5, <2>1, <2>2
<1> QED BY <1>4, <1>5, <1>6 DEF p

-------------------------------------------------------------------------------
(* Steps that only read or lose. *)

\* The file does not change, so its image and the commands of a phase do not.
LEMMA FileSame ==
  ASSUME file' = file
  PROVE  /\ Fits' = Fits /\ Image' = Image /\ PaddedSize(file)' = PaddedSize(file)
         /\ host'.offset = host.offset =>
              /\ Filled(host.offset)' = Filled(host.offset)
              /\ Filled(host.offset + Block)' = Filled(host.offset + Block)
         /\ Filled(0)' = Filled(0)
         /\ host'.phase = host.phase /\ host'.offset = host.offset => Waiting' = Waiting
<1>1. Fits' = Fits BY DEF Fits
<1>2. Image' = Image BY DEF Image
<1>3. PaddedSize(file)' = PaddedSize(file) OBVIOUS
<1>4. Filled(0)' = Filled(0) BY DEF Filled
<1>5. ASSUME host'.offset = host.offset
      PROVE  /\ Filled(host.offset)' = Filled(host.offset)
             /\ Filled(host.offset + Block)' = Filled(host.offset + Block)
  BY <1>5 DEF Filled
<1>6. ASSUME host'.phase = host.phase, host'.offset = host.offset PROVE Waiting' = Waiting
  BY <1>6 DEF Waiting, WriteAt
<1> QED BY <1>1, <1>2, <1>3, <1>4, <1>5, <1>6

\* The bytes a host has not read yet are still those of the replies.
LEMMA StillReplies ==
  ASSUME IsSeq(toHost), Garbled(toHost, toHost')
  PROVE  /\ \A i \in Replies' : \E j \in Replies :
              toHost'[i] = toHost[j] /\ (j = Len(toHost) => i = Len(toHost'))
         /\ \A i \in DOMAIN toHost' :
              \/ toHost'[i].magic = "none"
              \/ \E j \in DOMAIN toHost : toHost'[i].magic = toHost[j].magic
         /\ \A c : Says(toHost', c) => Says(toHost, c)
         /\ toHost = <<>> => toHost' = <<>>
<1>1. \A i \in DOMAIN toHost' :
        \/ toHost'[i] = Byte("noise")
        \/ \E j \in DOMAIN toHost : toHost'[i] = toHost[j] /\ (j = Len(toHost) => i = Len(toHost'))
  BY DEF Garbled
<1>2. Byte("noise").part # "rest" /\ Byte("noise").magic = "none" BY DEF Byte
<1>3. \A i \in DOMAIN toHost' : toHost'[i].magic = "none"
         \/ \E j \in DOMAIN toHost : toHost'[i].magic = toHost[j].magic
  BY <1>1, <1>2, Zenon
<1>4. ASSUME NEW i \in Replies' PROVE \E j \in Replies :
        toHost'[i] = toHost[j] /\ (j = Len(toHost) => i = Len(toHost'))
  <2>1. i \in DOMAIN toHost' /\ toHost'[i].part = "rest" BY DEF Replies
  <2>2. toHost'[i] # Byte("noise") BY <1>2, <2>1, Zenon
  <2>3. PICK j \in DOMAIN toHost : toHost'[i] = toHost[j] /\ (j = Len(toHost) => i = Len(toHost'))
    BY <1>1, <2>1, <2>2, Zenon
  <2>4. j \in Replies BY <2>1, <2>3, Zenon DEF Replies
  <2> QED BY <2>3, <2>4, Zenon
<1>5. toHost = <<>> => toHost' = <<>>
  <2> SUFFICES ASSUME toHost = <<>> PROVE toHost' = <<>> OBVIOUS
  <2>1. IsSeq(toHost') /\ Len(toHost') <= Len(toHost) BY DEF Garbled
  <2>2. Len(toHost) = 0 BY EmptyIsSeq
  <2>3. Len(toHost') \in Nat /\ (toHost' # <<>> <=> Len(toHost') > 0) BY <2>1, SeqFacts, Zenon
  <2> QED BY <2>1, <2>2, <2>3
<1>6. \A c : Says(toHost', c) => Says(toHost, c) BY <1>1, <1>2, Zenon DEF Says
<1> QED BY <1>3, <1>4, <1>5, <1>6, Zenon

\* Nor is there a new command under way.
LEMMA StillUnderWay ==
  ASSUME IsSeq(toMcu), Thins(toMcu, toMcu')
  PROVE  /\ IsSeq(toMcu') /\ Len(toMcu') \in Nat /\ Len(toMcu') <= Len(toMcu)
         /\ \A i \in DOMAIN toMcu' : \E j \in DOMAIN toMcu :
              toMcu'[i] = toMcu[j] /\ (j = Len(toMcu) => i = Len(toMcu'))
         /\ toMcu = <<>> => toMcu' = <<>>
         /\ UnderWay(toMcu') => UnderWay(toMcu)
<1>1. IsSeq(toMcu') /\ Len(toMcu') <= Len(toMcu)
      /\ \A i \in DOMAIN toMcu' : \E j \in DOMAIN toMcu :
           toMcu'[i] = toMcu[j] /\ (j = Len(toMcu) => i = Len(toMcu'))
  BY DEF Thins
<1>2. Len(toMcu') \in Nat /\ (toMcu' # <<>> <=> Len(toMcu') > 0) BY <1>1, SeqFacts, Zenon
<1>3. toMcu = <<>> => toMcu' = <<>> BY <1>1, <1>2, EmptyIsSeq
<1>4. UnderWay(toMcu') => UnderWay(toMcu) BY <1>1, Zenon DEF UnderWay
<1> QED BY <1>1, <1>2, <1>3, <1>4, Zenon

HostFields == {"phase", "reading", "offset", "magic"} \subseteq DOMAIN host

\* A host that reads on, or fails, keeps the invariant: so do lost and garbled bytes, and
\* commands that are lost or of no effect.
LEMMA ReadsOn ==
  ASSUME IInv, Thins(toMcu, toMcu'), Garbled(toHost, toHost'), UNCHANGED <<file, mcu, doubt>>,
         HostFields', host'.phase \in {host.phase, "failed"}, host'.offset = host.offset,
         host'.magic = host.magic,
         host'.phase \in {"done", "failed"} => host'.reading = "none"
  PROVE  IInv'
<1>1. IsSeq(toHost) /\ IsSeq(toMcu) BY DEF IInv, Shape
<1>2. \A i \in Replies' : \E j \in Replies :
        toHost'[i] = toHost[j] /\ (j = Len(toHost) => i = Len(toHost'))
  BY <1>1, StillReplies, Zenon
<1>3. /\ IsSeq(toMcu') /\ Len(toMcu') \in Nat /\ Len(toMcu') <= Len(toMcu)
      /\ \A i \in DOMAIN toMcu' : \E j \in DOMAIN toMcu :
           toMcu'[i] = toMcu[j] /\ (j = Len(toMcu) => i = Len(toMcu'))
      /\ toMcu = <<>> => toMcu' = <<>>
      /\ UnderWay(toMcu') => UnderWay(toMcu)
  BY <1>1, StillUnderWay, Zenon
<1>4. /\ \A c : Says(toHost', c) => Says(toHost, c)
      /\ toHost = <<>> => toHost' = <<>>
  BY <1>1, StillReplies, Zenon
<1>5. host'.phase = host.phase => Waiting' = Waiting BY FileSame
<1>6. Shape'
  <2>1. IsSeq(toHost') BY DEF Garbled
  <2>2. host'.phase \in {"greeting", "handshake", "done", "failed"} \cup Quiet BY DEF IInv, Shape
  <2>3. host'.phase # "failed" => Parses(file') BY DEF IInv, Shape
  <2>4. {"state", "magic", "flash"} \subseteq DOMAIN mcu' BY DEF IInv, Shape
  <2> QED BY <1>3, <2>1, <2>2, <2>3, <2>4, Zenon DEF Shape, HostFields, Quiet
<1>7. Alone'
  <2>1. \A i \in DOMAIN toMcu : toMcu[i].command = "pulse" \/ i = Len(toMcu) BY DEF IInv, Alone
  <2>2. \A i \in DOMAIN toMcu' : toMcu'[i].command = "pulse" \/ i = Len(toMcu')
    BY <1>3, <2>1, Zenon
  <2> QED BY <2>2, Zenon DEF Alone
<1>8. Greeted'
  <2> SUFFICES ASSUME host'.phase \in {"greeting", "handshake"} PROVE Greeted' BY DEF Greeted
  <2>1. host'.phase = host.phase /\ Waiting' = Waiting BY <1>5
  <2>2. \A i \in DOMAIN toMcu :
         \/ toMcu[i] = Message("pulse")
         \/ /\ host.phase = "handshake" /\ i = Len(toMcu)
            /\ Carries(toMcu[i], Waiting, doubt)
    BY <2>1 DEF IInv, Greeted
  <2>3. \A i \in Replies :
         \/ toHost[i].code = "00"
         \/ host.phase = "handshake" /\ i = Len(toHost) /\ toMcu = <<>>
    BY <2>1 DEF IInv, Greeted
  <2>4. \A i \in Replies' :
         \/ toHost'[i].code = "00"
         \/ host'.phase = "handshake" /\ i = Len(toHost') /\ toMcu' = <<>>
    BY <1>2, <1>3, <2>1, <2>3, Zenon
  <2>5. \A i \in DOMAIN toMcu' :
         \/ toMcu'[i] = Message("pulse")
         \/ /\ host'.phase = "handshake" /\ i = Len(toMcu')
            /\ Carries(toMcu'[i], Waiting', doubt')
    BY <1>3, <2>1, <2>2, Zenon
  <2> QED BY <2>4, <2>5, Zenon DEF Greeted
<1>9. Alternates'
  <2>1. ASSUME host'.phase \in Quiet
        PROVE  /\ Len(toMcu') <= 1
               /\ \A i \in DOMAIN toMcu' : Carries(toMcu'[i], Waiting', doubt')
               /\ toMcu' # <<>> => toHost' = <<>>
               /\ \A i \in Replies' : i = Len(toHost')
    <3>1. host'.phase = host.phase /\ Waiting' = Waiting BY <1>5, <2>1 DEF Quiet
    <3>2. /\ Len(toMcu) <= 1 /\ \A i \in DOMAIN toMcu : Carries(toMcu[i], Waiting, doubt)
          /\ toMcu # <<>> => toHost = <<>>
          /\ \A i \in Replies : i = Len(toHost)
      BY <2>1, <3>1 DEF IInv, Alternates
    <3>3. \A i \in Replies' : i = Len(toHost') BY <1>2, <3>2, Zenon
    <3>4. toMcu' # <<>> => toHost' = <<>> BY <1>3, <1>4, <3>2, Zenon
    <3>5. \A i \in DOMAIN toMcu' : Carries(toMcu'[i], Waiting', doubt')
      BY <1>3, <3>1, <3>2, Zenon
    <3>6. Len(toMcu) \in Nat BY <1>1, SeqFacts
    <3>7. Len(toMcu') <= 1 BY <1>3, <3>2, <3>6
    <3> QED BY <3>3, <3>4, <3>5, <3>7
  <2>2. ASSUME host'.phase = "done"
        PROVE  \A i \in DOMAIN toMcu' : Carries(toMcu'[i], Waiting', doubt')
    <3>1. host.phase = "done" /\ Waiting' = Waiting BY <1>5, <2>2
    <3>2. \A i \in DOMAIN toMcu : Carries(toMcu[i], Waiting, doubt)
      BY <3>1 DEF IInv, Alternates
    <3> QED BY <1>3, <3>1, <3>2, Zenon
  <2>3. Quiet' = Quiet BY DEF Quiet
  <2> QED BY <2>1, <2>2, <2>3, Zenon DEF Alternates
<1>10. Knows'
  <2>1. \A i \in DOMAIN toHost' : toHost'[i].magic = "none"
         \/ \E j \in DOMAIN toHost : toHost'[i].magic = toHost[j].magic
    BY <1>1, StillReplies, Zenon
  <2> QED BY <2>1 DEF IInv, Knows, Magic
<1>11. Staged' BY <1>3, <1>4 DEF IInv, Staged, Early, Late
<1>12. Foreign' BY <1>3 DEF IInv, Foreign, Unharmed, Address, Early, Late
<1>13. Filling'
  <2> SUFFICES ASSUME Fits', host'.phase # "failed" PROVE Filling' BY DEF Filling
  <2>1. Fits /\ host'.phase = host.phase BY FileSame
  <2>2. /\ host.phase = "erase" /\ Says(toHost, "00") => Matches(mcu.flash, Filled(0), doubt)
        /\ host.phase = "write" =>
             /\ \E k \in Nat : host.offset = k * Block
             /\ host.offset < PaddedSize(file)
             /\ toMcu # <<>> => Matches(mcu.flash, Filled(host.offset), doubt)
             /\ Says(toHost, "00") => Matches(mcu.flash, Filled(host.offset + Block), doubt)
        /\ host.phase \in {"finish", "done"} => Matches(mcu.flash, Image, doubt)
    BY <2>1 DEF IInv, Filling
  <2>3. /\ Image' = Image /\ PaddedSize(file)' = PaddedSize(file) /\ Filled(0)' = Filled(0)
        /\ Filled(host.offset)' = Filled(host.offset)
        /\ Filled(host.offset + Block)' = Filled(host.offset + Block)
    BY FileSame
  <2> QED BY <1>3, <1>4, <2>1, <2>2, <2>3 DEF Filling
<1> QED BY <1>6, <1>7, <1>8, <1>9, <1>10, <1>11, <1>12, <1>13 DEF IInv

\* Of what is under way to the boot ROM, what is lost or of no effect.
LEMMA EatsOne ==
  ASSUME IInv, Thins(toMcu, toMcu'), UNCHANGED <<file, host, toHost, mcu, doubt>>
  PROVE  IInv'
<1>1. Garbled(toHost, toHost') BY SameThins, ThinsGarbled DEF IInv, Shape
<1>2. HostFields' /\ (host'.phase \in {"done", "failed"} => host'.reading = "none")
  BY DEF IInv, Shape, HostFields
<1> QED BY <1>1, <1>2, ReadsOn

-------------------------------------------------------------------------------
(* Steps of the boot ROM. *)

\* The command of the phase, by its name.
LEMMA WaitingFacts ==
  /\ host.phase = "write" => Waiting = WriteAt(host.offset)
  /\ host.phase \in {"finish", "done"} => Waiting.command \notin {"write", "pulse"}
  /\ host.phase \in {"handshake", "done"} \cup Quiet => Waiting.command # "pulse"
<1>1. \A c : Message(c).command = c BY DEF Message
<1>2. WriteAt(host.offset).command = "write" BY DEF WriteAt
<1> QED BY <1>1, <1>2 DEF Waiting, Quiet

\* What the boot ROM finds first on the line.
LEMMA HeadFacts ==
  ASSUME IInv, toMcu # <<>>
  PROVE  /\ Len(toMcu) \in Nat \ {0} /\ DOMAIN toMcu = 1 .. Len(toMcu)
         /\ Head(toMcu) = toMcu[1]
         /\ host.phase \in Quiet => toHost = <<>>
         /\ host.phase \in {"done"} \cup Quiet =>
              Carries(Head(toMcu), Waiting, doubt) /\ Head(toMcu).command # "pulse"
         /\ host.phase = "greeting" => Head(toMcu).command = "pulse"
         /\ Head(toMcu).command # "pulse" => UnderWay(toMcu) /\ Tail(toMcu) = <<>>
         /\ Thins(toMcu, Tail(toMcu))
<1>1. IsSeq(toMcu) BY DEF IInv, Shape
<1>2. Len(toMcu) \in Nat \ {0} /\ DOMAIN toMcu = 1 .. Len(toMcu) /\ Head(toMcu) = toMcu[1]
  BY <1>1, SeqFacts
<1>3. 1 \in DOMAIN toMcu BY <1>2
<1>4. host.phase \in Quiet => toHost = <<>> BY DEF IInv, Alternates
<1>5. ASSUME host.phase \in {"done"} \cup Quiet
      PROVE  Carries(Head(toMcu), Waiting, doubt) /\ Head(toMcu).command # "pulse"
  <2>1. \A i \in DOMAIN toMcu : Carries(toMcu[i], Waiting, doubt) BY <1>5 DEF IInv, Alternates
  <2>2. Carries(Head(toMcu), Waiting, doubt) BY <1>2, <1>3, <2>1, Zenon
  <2>3. Waiting.command # "pulse" BY <1>5, WaitingFacts
  <2> QED BY <2>2, <2>3, DamagedFacts, Zenon
<1>6. ASSUME host.phase = "greeting" PROVE Head(toMcu).command = "pulse"
  <2>1. \A i \in DOMAIN toMcu : toMcu[i] = Message("pulse") BY <1>6 DEF IInv, Greeted
  <2> QED BY <1>2, <1>3, <2>1 DEF Message
<1>7. ASSUME Head(toMcu).command # "pulse" PROVE UnderWay(toMcu) /\ Tail(toMcu) = <<>>
  <2>1. UnderWay(toMcu) BY <1>2, <1>3, <1>7, Zenon DEF UnderWay
  <2>2. 1 = Len(toMcu) BY <1>2, <1>3, <1>7 DEF IInv, Alone
  <2>3. IsSeq(Tail(toMcu)) /\ Len(Tail(toMcu)) = 0 BY <1>1, <2>2, TailFacts
  <2>4. Tail(toMcu) = <<>> BY <2>3, NoneLeft, Zenon
  <2> QED BY <2>1, <2>4
<1>8. Thins(toMcu, Tail(toMcu)) BY <1>1, TailThins
<1> QED BY <1>2, <1>4, <1>5, <1>6, <1>7, <1>8, Zenon

\* A boot ROM that answers keeps the order of commands and replies, if a pulse is answered
\* by a status packet; what the replies under way then say.
LEMMA Answers ==
  ASSUME IInv, toMcu # <<>>, toMcu' = Tail(toMcu), NEW c, NEW m \in {"none", mcu.magic},
         toHost' = toHost \o Packet(c, m), UNCHANGED <<file, host, doubt>>,
         {"state", "magic", "flash"} \subseteq DOMAIN mcu', mcu'.magic = mcu.magic,
         Head(toMcu).command = "pulse" => c = "00"
  PROVE  /\ (Shape /\ Alone /\ Greeted /\ Alternates /\ Knows)'
         /\ Head(toMcu).command # "pulse" => toMcu' = <<>> /\ ~UnderWay(toMcu')
         /\ host.phase \in {"greeting", "handshake"} =>
              \A x : Says(toHost', x) => x \in {"00", c}
         /\ host.phase \in Quiet => toMcu' = <<>> /\ \A x : Says(toHost', x) => x = c
<1>1. Waiting' = Waiting BY FileSame
<1>2. IsSeq(toMcu) /\ IsSeq(toHost) BY DEF IInv, Shape
<1>3. IsSeq(toMcu') /\ Len(toMcu') <= Len(toMcu)
      /\ \A i \in DOMAIN toMcu' : \E j \in DOMAIN toMcu :
           toMcu'[i] = toMcu[j] /\ (j = Len(toMcu) => i = Len(toMcu'))
  BY HeadFacts DEF Thins
<1>4. IsSeq(toHost') /\ Len(toHost') = Len(toHost) + 4
      /\ \A i \in DOMAIN toHost' :
              \/ i \in DOMAIN toHost /\ toHost'[i] = toHost[i]
              \/ toHost'[i].part # "rest" /\ toHost'[i].magic = "none"
              \/ i = Len(toHost') /\ toHost'[i].code = c /\ toHost'[i].magic = m
  BY <1>2, PacketFacts
<1>5. \A i \in Replies' :
        \/ i \in Replies /\ toHost'[i] = toHost[i]
        \/ i = Len(toHost') /\ toHost'[i].code = c
  BY <1>4, Zenon DEF Replies
<1>6. \A x : Says(toHost', x) => Says(toHost, x) \/ x = c BY <1>4, Zenon DEF Says
<1>7. ASSUME Head(toMcu).command # "pulse" PROVE toMcu' = <<>> /\ ~UnderWay(toMcu')
  <2>1. toMcu' = <<>> BY <1>7, HeadFacts
  <2> QED BY <2>1, EmptyIsSeq DEF UnderWay
<1>8. ASSUME host.phase \in {"greeting", "handshake"}
      PROVE  /\ \A i \in Replies : toHost[i].code = "00"
             /\ \A x : Says(toHost', x) => x \in {"00", c}
  <2>1. \A i \in Replies : toHost[i].code = "00" BY <1>8 DEF IInv, Greeted
  <2>2. \A x : Says(toHost, x) => x = "00" BY <2>1, Zenon DEF Says, Replies
  <2> QED BY <1>6, <2>1, <2>2
<1>9. ASSUME host.phase \in Quiet
      PROVE  toMcu' = <<>> /\ toHost = <<>> /\ \A x : Says(toHost', x) => x = c
  <2>1. toMcu' = <<>> /\ toHost = <<>> BY <1>9, HeadFacts
  <2>2. \A x : ~Says(toHost, x) BY <2>1, EmptyIsSeq DEF Says
  <2> QED BY <1>6, <2>1, <2>2, Zenon
<1>10. Shape' BY <1>3, <1>4 DEF IInv, Shape, Quiet
<1>11. Alone'
  <2>1. \A i \in DOMAIN toMcu : toMcu[i].command = "pulse" \/ i = Len(toMcu) BY DEF IInv, Alone
  <2>2. \A i \in DOMAIN toMcu' : toMcu'[i].command = "pulse" \/ i = Len(toMcu')
    BY <1>3, <2>1, Zenon
  <2> QED BY <2>2, Zenon DEF Alone
<1>12. Greeted'
  <2> SUFFICES ASSUME host.phase \in {"greeting", "handshake"} PROVE Greeted' BY DEF Greeted
  <2>1. \A i \in DOMAIN toMcu :
         \/ toMcu[i] = Message("pulse")
         \/ /\ host.phase = "handshake" /\ i = Len(toMcu)
            /\ Carries(toMcu[i], Waiting, doubt)
    BY DEF IInv, Greeted
  <2>2. \A i \in Replies : toHost[i].code = "00" BY <1>8
  <2>3. \A i \in DOMAIN toMcu' :
         \/ toMcu'[i] = Message("pulse")
         \/ /\ host.phase = "handshake" /\ i = Len(toMcu')
            /\ Carries(toMcu'[i], Waiting', doubt')
    BY <1>1, <1>3, <2>1, Zenon
  <2>4. c = "00" \/ (host.phase = "handshake" /\ toMcu' = <<>>)
    <3>1. CASE Head(toMcu).command = "pulse" BY <3>1
    <3>2. CASE Head(toMcu).command # "pulse" BY <1>7, <3>2, HeadFacts
    <3> QED BY <3>1, <3>2
  <2>5. \A i \in Replies' :
         \/ toHost'[i].code = "00"
         \/ host.phase = "handshake" /\ i = Len(toHost') /\ toMcu' = <<>>
    BY <1>5, <2>2, <2>4, Zenon
  <2> QED BY <2>3, <2>5 DEF Greeted
<1>13. Alternates'
  <2>1. ASSUME host.phase \in Quiet
        PROVE  toMcu' = <<>> /\ \A i \in Replies' : i = Len(toHost')
    <3>1. toMcu' = <<>> /\ toHost = <<>> BY <1>9, <2>1
    <3>2. Replies = {} BY <3>1, EmptyIsSeq DEF Replies
    <3> QED BY <1>5, <3>1, <3>2, Zenon
  <2>2. ASSUME host.phase = "done"
        PROVE  \A i \in DOMAIN toMcu' : Carries(toMcu'[i], Waiting', doubt')
    <3>1. \A i \in DOMAIN toMcu : Carries(toMcu[i], Waiting, doubt)
      BY <2>2 DEF IInv, Alternates
    <3> QED BY <1>1, <1>3, <3>1, Zenon
  <2>3. Quiet' = Quiet BY DEF Quiet
  <2> QED BY <2>1, <2>2, <2>3, EmptyIsSeq DEF Alternates
<1>14. Knows'
  <2>1. \A i \in DOMAIN toHost : toHost[i].magic \in {"none", mcu.magic} BY DEF IInv, Knows
  <2>2. \A i \in DOMAIN toHost' : toHost'[i].magic \in {"none", mcu.magic} BY <1>4, <2>1
  <2> QED BY <2>2 DEF IInv, Knows, Magic
<1> QED BY <1>7, <1>8, <1>9, <1>10, <1>11, <1>12, <1>13, <1>14

\* Every step of the boot ROM keeps the invariant.
LEMMA McuKeeps == IInv /\ McuStep => IInv'
<1> SUFFICES ASSUME IInv, McuStep PROVE IInv' OBVIOUS
<1>1. /\ toMcu # <<>> /\ toMcu' = Tail(toMcu) /\ UNCHANGED <<file, doubt>>
      /\ \/ (Pulsed \/ Negotiated \/ EraseAll \/ Program \/ Finished) /\ UNCHANGED host
         \/ Refused
  BY DEF McuStep
<1>2. {"state", "magic", "flash"} \subseteq DOMAIN mcu BY DEF IInv, Shape
<1>3. Thins(toMcu, toMcu') BY <1>1, HeadFacts
<1>4. ASSUME NEW s, mcu' = [mcu EXCEPT !.state = s]
      PROVE  /\ {"state", "magic", "flash"} \subseteq DOMAIN mcu' /\ mcu'.state = s
             /\ mcu'.magic = mcu.magic /\ mcu'.flash = mcu.flash
  BY <1>2, <1>4
<1>5. host.phase \in {"greeting", "handshake", "done", "failed"} \cup Quiet BY DEF IInv, Shape
\* Which phases a command finds its state in.
<1>6. ASSUME Head(toMcu).command # "pulse"
      PROVE  /\ host.phase # "greeting" /\ UnderWay(toMcu)
             /\ host.phase \in {"handshake", "baudtest", "baudswitch"} => mcu.state \in Early
             /\ host.phase = "erase" => mcu.state = "negotiated"
             /\ host.phase = "write" => mcu.state = "programming"
             /\ host.phase \in {"finish", "done"} => mcu.state \in Late
  <2>1. host.phase # "greeting" /\ UnderWay(toMcu) BY <1>1, <1>6, HeadFacts
  <2> QED BY <1>1, <2>1 DEF IInv, Staged
<1>7. CASE Pulsed /\ UNCHANGED host
  <2>1. CASE UNCHANGED <<mcu, toHost>> BY <1>1, <1>3, <1>7, <2>1, EatsOne
  <2>2. CASE Answer("detected", Packet("00", mcu.magic))
    <3>1. mcu' = [mcu EXCEPT !.state = "detected"] /\ toHost' = toHost \o Packet("00", mcu.magic)
      BY <2>2 DEF Answer
    <3>2. Head(toMcu).command = "pulse" BY <1>7 DEF Pulsed
    <3>3. /\ {"state", "magic", "flash"} \subseteq DOMAIN mcu' /\ mcu'.state = "detected"
          /\ mcu'.magic = mcu.magic /\ mcu'.flash = mcu.flash
      BY <1>4, <3>1
    <3>4. host.phase \in {"greeting", "handshake", "failed"} BY <1>1, <1>5, <3>2, HeadFacts
    <3>5. (Shape /\ Alone /\ Greeted /\ Alternates /\ Knows)' BY <1>1, <1>7, <3>1, <3>3, Answers
    <3>6. Staged' BY <1>7, <3>3, <3>4 DEF Staged, Early
    <3>7. Foreign' BY <1>7, <3>3, <3>4 DEF IInv, Foreign, Unharmed, Address, Early, Late
    <3>8. Filling' BY <1>7, <3>4 DEF Filling
    <3> QED BY <3>5, <3>6, <3>7, <3>8 DEF IInv
  <2> QED BY <1>7, <2>1, <2>2 DEF Pulsed
<1>8. CASE Negotiated /\ UNCHANGED host
  <2>1. PICK c \in {"8F", "84"}, s \in {"detected", "negotiated"} :
          /\ c = "8F" <=> s = "detected"
          /\ mcu' = [mcu EXCEPT !.state = s] /\ toHost' = toHost \o Packet(c, "none")
    BY <1>8 DEF Negotiated, Answer, Reply
  <2>2. Head(toMcu).command # "pulse" /\ mcu.state = "detected" BY <1>8 DEF Negotiated
  <2>3. /\ {"state", "magic", "flash"} \subseteq DOMAIN mcu' /\ mcu'.state = s
        /\ mcu'.magic = mcu.magic /\ mcu'.flash = mcu.flash
    BY <1>4, <2>1
  <2>4. host.phase \in {"handshake", "baudtest", "baudswitch", "failed"}
    BY <1>5, <1>6, <2>2 DEF Late, Quiet
  <2>5. /\ (Shape /\ Alone /\ Greeted /\ Alternates /\ Knows)'
        /\ toMcu' = <<>> /\ ~UnderWay(toMcu')
        /\ host.phase = "handshake" => \A x : Says(toHost', x) => x \in {"00", c}
        /\ host.phase \in Quiet => \A x : Says(toHost', x) => x = c
    BY <1>1, <1>8, <2>1, <2>2, <2>3, Answers
  <2>6. /\ host.phase \in {"handshake", "baudtest"} /\ Says(toHost', "8F") => c = "8F"
        /\ host.phase = "baudswitch" /\ Says(toHost', "84") => c = "84"
    BY <2>5 DEF Quiet
  <2>7. Staged' BY <1>8, <2>1, <2>3, <2>4, <2>5, <2>6 DEF Staged, Early
  <2>8. Foreign' BY <1>8, <2>3, <2>4, <2>5 DEF IInv, Foreign, Unharmed, Address, Late
  <2>9. Filling' BY <1>8, <2>4 DEF Filling
  <2> QED BY <2>5, <2>7, <2>8, <2>9 DEF IInv
<1>9. CASE EraseAll /\ UNCHANGED host
  <2>1. /\ Head(toMcu).command = "erase" /\ mcu.state = "negotiated"
        /\ mcu' = [mcu EXCEPT !.state = "programming", !.flash = [a \in Address |-> Erased]]
        /\ toHost' = toHost \o Packet("00", "none")
    BY <1>9 DEF EraseAll, Reply
  <2>2. /\ {"state", "magic", "flash"} \subseteq DOMAIN mcu' /\ mcu'.magic = mcu.magic
        /\ mcu'.flash = [a \in Address |-> Erased] /\ mcu'.state = "programming"
    BY <1>2, <2>1
  <2>3. mcu'.flash = Filled(0) BY <2>2, FilledNone, Zenon
  <2>4. host.phase \in {"erase", "failed"} BY <1>5, <1>6, <2>1 DEF Early, Late, Quiet
  <2>5. mcu.magic # "stc15" BY <1>6, <2>1 DEF IInv, Foreign, Early
  <2>6. (Shape /\ Alone /\ Greeted /\ Alternates /\ Knows)' /\ toMcu' = <<>>
    BY <1>1, <1>9, <2>1, <2>2, Answers
  <2>7. Staged' BY <1>9, <2>2, <2>4, <2>6 DEF Staged
  <2>8. Foreign' BY <2>2, <2>5 DEF Foreign
  <2>9. Filling'
    <3>1. Filled(0)' = Filled(0) BY <1>1, FileSame
    <3>2. Matches(mcu'.flash, Filled(0)', doubt') BY <2>3, <3>1, Zenon DEF Matches
    <3> QED BY <1>9, <2>4, <3>2 DEF Filling
  <2> QED BY <2>6, <2>7, <2>8, <2>9 DEF IInv
<1>10. CASE Program /\ UNCHANGED host
  <2>1. /\ Head(toMcu).command = "write" /\ mcu.state = "programming"
        /\ mcu' = [mcu EXCEPT !.flash = Programmed(@, Head(toMcu))]
        /\ toHost' = toHost \o Packet("00", "none")
    BY <1>10 DEF Program, Reply
  <2> DEFINE w == Head(toMcu)
             f == Programmed(mcu.flash, w)
  <2>2. mcu' = [mcu EXCEPT !.flash = f] BY <2>1
  <2>3. w.command = "write" BY <2>1
  <2> HIDE DEF f, w
  <2>4. /\ {"state", "magic", "flash"} \subseteq DOMAIN mcu' /\ mcu'.state = "programming"
        /\ mcu'.magic = mcu.magic /\ mcu'.flash = f
    BY <1>2, <2>1, <2>2
  <2>5. host.phase \in {"write", "finish", "done", "failed"}
    BY <1>5, <1>6, <2>1 DEF Early, Quiet
  <2>6. mcu.magic # "stc15" BY <2>1 DEF IInv, Foreign, Late
  <2>7. (Shape /\ Alone /\ Greeted /\ Alternates /\ Knows)' /\ toMcu' = <<>>
    BY <1>1, <1>10, <2>1, <2>4, Answers
  <2>8. Staged' BY <1>10, <2>4, <2>5, <2>7 DEF Staged, Late
  <2>9. Foreign' BY <2>4, <2>6 DEF Foreign
  <2>10. Carries(w, Waiting, doubt) \/ host.phase = "failed"
    BY <1>1, <2>5, HeadFacts DEF Quiet, w
  <2>11. Filling'
    <3> SUFFICES ASSUME Fits, host.phase # "failed" PROVE Filling'
        BY <1>1, <1>10, FileSame DEF Filling
    <3>1. /\ Image' = Image /\ Filled(host.offset + Block)' = Filled(host.offset + Block)
          /\ PaddedSize(file)' = PaddedSize(file)
      BY <1>1, <1>10, FileSame
    <3>2. CASE host.phase = "write"
      <4>1. PICK k \in Nat : host.offset = k * Block BY <3>2 DEF IInv, Filling
      <4>2. host.offset < PaddedSize(file) /\ Matches(mcu.flash, Filled(host.offset), doubt)
        BY <1>1, <3>2 DEF IInv, Filling
      <4>3. Parses(file) BY <3>2 DEF IInv, Shape
      <4>4. Carries(w, WriteAt(host.offset), doubt) BY <2>10, <3>2, WaitingFacts
      <4>5. Matches(f, Filled(host.offset + Block), doubt)
        BY <4>1, <4>2, <4>3, <4>4, BlockWritten, Zenon DEF f
      <4> QED BY <1>1, <1>10, <2>4, <2>7, <3>1, <3>2, <4>1, <4>2, <4>5 DEF Filling
    <3>3. CASE host.phase \in {"finish", "done"}
      <4>1. w # Waiting BY <2>3, <3>3, WaitingFacts
      <4>2. Reach(w) \subseteq doubt BY <2>10, <4>1 DEF Carries
      <4>3. Matches(mcu.flash, Image, doubt) BY <3>3 DEF IInv, Filling
      <4>4. Matches(f, Image, doubt) BY <4>2, <4>3, StrayWritten, Zenon DEF f
      <4> QED BY <1>1, <1>10, <2>4, <3>1, <3>3, <4>4 DEF Filling
    <3> QED BY <2>5, <3>2, <3>3
  <2> QED BY <2>7, <2>8, <2>9, <2>11 DEF IInv
<1>11. CASE Finished /\ UNCHANGED host
  <2>1. CASE UNCHANGED <<mcu, toHost>> BY <1>1, <1>3, <1>11, <2>1, EatsOne
  <2>2. CASE mcu.state = "programming" /\ Head(toMcu).command = "finish"
             /\ Answer("done", Reply("8D"))
    <3>1. mcu' = [mcu EXCEPT !.state = "done"] /\ toHost' = toHost \o Packet("8D", "none")
      BY <2>2 DEF Answer, Reply
    <3>2. /\ {"state", "magic", "flash"} \subseteq DOMAIN mcu' /\ mcu'.state = "done"
          /\ mcu'.magic = mcu.magic /\ mcu'.flash = mcu.flash
      BY <1>4, <3>1
    <3>3. mcu.magic # "stc15" BY <2>2 DEF IInv, Foreign, Late
    <3>4. host.phase \in {"write", "finish", "done", "failed"}
      BY <1>5, <1>6, <2>2 DEF Early, Quiet
    <3>5. /\ (Shape /\ Alone /\ Greeted /\ Alternates /\ Knows)' /\ toMcu' = <<>>
          /\ host.phase \in Quiet => \A x : Says(toHost', x) => x = "8D"
      BY <1>1, <1>11, <2>2, <3>1, <3>2, Answers
    <3>6. host.phase = "write" => ~Says(toHost', "00") BY <3>5 DEF Quiet
    <3>7. Staged' BY <1>11, <3>2, <3>4, <3>5, <3>6 DEF Staged, Late
    <3>8. Foreign' BY <3>2, <3>3 DEF Foreign
    <3>9. Filling'
      <4> SUFFICES ASSUME Fits PROVE Filling' BY <1>1, FileSame DEF Filling
      <4>1. Image' = Image /\ PaddedSize(file)' = PaddedSize(file) BY <1>1, FileSame
      <4>2. CASE host.phase = "write"
        BY <1>11, <3>5, <3>6, <4>1, <4>2 DEF IInv, Filling
      <4>3. CASE host.phase \in {"finish", "done"}
        BY <1>1, <1>11, <3>2, <4>1, <4>3 DEF IInv, Filling
      <4>4. CASE host.phase = "failed" BY <1>11, <4>4 DEF Filling
      <4> QED BY <3>4, <4>2, <4>3, <4>4
    <3> QED BY <3>5, <3>7, <3>8, <3>9 DEF IInv
  <2> QED BY <1>11, <2>1, <2>2 DEF Finished
<1>12. CASE Refused
  <2>1. UNCHANGED <<mcu, toHost>> BY <1>12 DEF Refused
  <2>2. CASE UNCHANGED host BY <1>1, <1>3, <2>1, <2>2, EatsOne
  <2>3. CASE End("failed")
    <3>1. HostFields BY DEF IInv, Shape, HostFields
    <3>2. HostFields' /\ host'.phase = "failed" /\ host'.reading = "none"
          /\ host'.offset = host.offset /\ host'.magic = host.magic
      BY <2>3, <3>1 DEF HostFields, End
    <3>3. Garbled(toHost, toHost') BY <2>1, SameThins, ThinsGarbled DEF IInv, Shape
    <3> QED BY <1>1, <1>3, <2>1, <3>2, <3>3, ReadsOn
  <2> QED BY <1>12, <2>2, <2>3 DEF Refused
<1> QED BY <1>1, <1>7, <1>8, <1>9, <1>10, <1>11, <1>12

-------------------------------------------------------------------------------
(* Steps of the line. *)

\* A damaged command takes the place of the one under way, and puts what both write in
\* doubt.
LEMMA DamageKeeps ==
  ASSUME IInv, GarbleToMcu, UNCHANGED <<file, host, mcu>>
  PROVE  IInv'
<1>1. PICK k \in DOMAIN toMcu, m \in Damaged :
        /\ toMcu[k].command # "pulse" /\ toMcu' = [toMcu EXCEPT ![k] = m]
        /\ doubt' = doubt \cup Reach(toMcu[k]) \cup Reach(m)
  BY DEF GarbleToMcu
<1>2. toHost' = toHost BY DEF GarbleToMcu
<1>3. IsSeq(toMcu) BY DEF IInv, Shape
<1>4. /\ IsSeq(toMcu') /\ Len(toMcu') = Len(toMcu) /\ DOMAIN toMcu' = DOMAIN toMcu
      /\ toMcu'[k] = m /\ \A i \in DOMAIN toMcu' : i # k => toMcu'[i] = toMcu[i]
  <2> DEFINE t == [toMcu EXCEPT ![k] = m]
  <2>1. /\ IsSeq(t) /\ Len(t) = Len(toMcu) /\ DOMAIN t = DOMAIN toMcu
        /\ t[k] = m /\ \A i \in DOMAIN t : i # k => t[i] = toMcu[i]
    BY <1>3, ChangeFacts, Zenon
  <2>2. toMcu' = t BY <1>1
  <2> HIDE DEF t
  <2> QED BY <2>1, <2>2
<1>5. toMcu # <<>> /\ UnderWay(toMcu) BY <1>1, EmptyIsSeq DEF UnderWay
<1>6. k = Len(toMcu) BY <1>1 DEF IInv, Alone
<1>7. Waiting' = Waiting BY FileSame
<1>8. doubt \subseteq doubt' BY <1>1
<1>9. /\ \A f, g : Matches(f, g, doubt) => Matches(f, g, doubt')
      /\ \A x, c : Carries(x, c, doubt) => Carries(x, c, doubt')
  BY <1>8, MoreDoubt
<1>10. \A c : Carries(toMcu[k], c, doubt) => Carries(m, c, doubt') BY <1>1, <1>8 DEF Carries
<1>11. Replies' = Replies BY <1>2 DEF Replies
<1>12. Shape' BY <1>2, <1>4 DEF IInv, Shape, Quiet
<1>13. Alone' BY <1>4, <1>6 DEF IInv, Alone
<1>14. Greeted'
  <2> SUFFICES ASSUME host.phase \in {"greeting", "handshake"} PROVE Greeted' BY DEF Greeted
  <2>1. \A i \in DOMAIN toMcu :
         \/ toMcu[i] = Message("pulse")
         \/ /\ host.phase = "handshake" /\ i = Len(toMcu)
            /\ Carries(toMcu[i], Waiting, doubt)
    BY DEF IInv, Greeted
  <2>2. toMcu[k] # Message("pulse") BY <1>1 DEF Message
  <2>3. host.phase = "handshake" /\ Carries(m, Waiting', doubt')
    BY <1>1, <1>7, <1>10, <2>1, <2>2, Zenon
  <2>4. \A i \in DOMAIN toMcu' :
         \/ toMcu'[i] = Message("pulse")
         \/ /\ host.phase = "handshake" /\ i = Len(toMcu')
            /\ Carries(toMcu'[i], Waiting', doubt')
    BY <1>4, <1>6, <1>7, <1>9, <2>1, <2>3, Zenon
  <2>5. \A i \in Replies' : toHost'[i].code = "00" BY <1>2, <1>5, <1>11 DEF IInv, Greeted
  <2> QED BY <2>4, <2>5 DEF Greeted
<1>15. ASSUME \A i \in DOMAIN toMcu : Carries(toMcu[i], Waiting, doubt)
       PROVE  \A i \in DOMAIN toMcu' : Carries(toMcu'[i], Waiting', doubt')
  BY <1>1, <1>4, <1>7, <1>9, <1>10, <1>15, Zenon
<1>16. Alternates' BY <1>2, <1>4, <1>5, <1>11, <1>15 DEF IInv, Alternates, Quiet
<1>17. Knows' BY <1>2 DEF IInv, Knows, Magic
<1>18. Staged' BY <1>2, <1>5 DEF IInv, Staged, Early, Late
<1>19. Foreign' BY <1>5 DEF IInv, Foreign, Unharmed, Address, Early, Late
<1>20. Filling'
  <2> SUFFICES ASSUME Fits PROVE Filling' BY FileSame DEF Filling
  <2>1. /\ Image' = Image /\ PaddedSize(file)' = PaddedSize(file) /\ Filled(0)' = Filled(0)
        /\ Filled(host.offset)' = Filled(host.offset)
        /\ Filled(host.offset + Block)' = Filled(host.offset + Block)
    BY FileSame
  <2> QED BY <1>2, <1>5, <1>9, <2>1 DEF IInv, Filling
<1> QED BY <1>12, <1>13, <1>14, <1>16, <1>17, <1>18, <1>19, <1>20 DEF IInv

\* Whatever the line does keeps the invariant.
LEMMA LineKeeps == IInv /\ Line => IInv'
<1> SUFFICES ASSUME IInv, Line PROVE IInv' OBVIOUS
<1>1. UNCHANGED <<file, host, mcu>> /\ (LoseToMcu \/ GarbleToMcu \/ LoseToHost \/ GarbleToHost)
  BY DEF Line
<1>2. IsSeq(toMcu) /\ IsSeq(toHost) BY DEF IInv, Shape
<1>3. CASE LoseToMcu
  <2>1. PICK i \in DOMAIN toMcu : toMcu' = RemoveAt(toMcu, i) BY <1>3, Zenon DEF LoseToMcu
  <2>2. Thins(toMcu, toMcu') BY <1>2, <2>1, RemoveThins, Zenon
  <2> QED BY <1>1, <1>3, <2>2, EatsOne DEF LoseToMcu
<1>4. HostFields' /\ (host'.phase \in {"done", "failed"} => host'.reading = "none")
  BY <1>1 DEF IInv, Shape, HostFields
<1>5. Thins(toMcu, toMcu) BY <1>2, SameThins
<1>6. CASE LoseToHost
  <2>1. PICK i \in DOMAIN toHost : toHost' = RemoveAt(toHost, i) BY <1>6, Zenon DEF LoseToHost
  <2>2. Garbled(toHost, toHost') BY <1>2, <2>1, RemoveThins, ThinsGarbled, Zenon
  <2> QED BY <1>1, <1>4, <1>5, <1>6, <2>2, ReadsOn DEF LoseToHost
<1>7. CASE GarbleToHost
  <2>1. PICK i \in DOMAIN toHost : toHost' = [toHost EXCEPT ![i] = Byte("noise")]
    BY <1>7, Zenon DEF GarbleToHost
  <2>2. Garbled(toHost, toHost') BY <1>2, <2>1, NoiseGarbles, Zenon
  <2> QED BY <1>1, <1>4, <1>5, <1>7, <2>2, ReadsOn DEF GarbleToHost
<1>8. CASE GarbleToMcu BY <1>1, <1>8, DamageKeeps
<1> QED BY <1>1, <1>3, <1>6, <1>7, <1>8

-------------------------------------------------------------------------------
(* Steps of the host. *)

\* An end, in failure or back to the greeting, keeps the invariant with what is left of
\* the line.
LEMMA Ends ==
  ASSUME IInv, NEW p, End(p), p \in {host.phase, "failed"}, p # "done",
         Garbled(toHost, toHost'), UNCHANGED <<file, toMcu, mcu, doubt>>
  PROVE  IInv'
<1>1. HostFields BY DEF IInv, Shape, HostFields
<1>2. host' = [host EXCEPT !.phase = p, !.reading = "none"] BY DEF End
<1>3. HostFields' /\ host'.phase = p /\ host'.reading = "none" /\ host'.offset = host.offset
      /\ host'.magic = host.magic
  BY <1>1, <1>2 DEF HostFields
<1>4. Thins(toMcu, toMcu') BY SameThins DEF IInv, Shape
<1> QED BY <1>3, <1>4, ReadsOn

\* A failed read of a host that reads.
LEMMA Fails ==
  ASSUME IInv, host.reading # "none", ReadFails, Garbled(toHost, toHost'),
         UNCHANGED <<file, mcu, doubt>>
  PROVE  IInv'
<1> DEFINE p == IF host.phase = "greeting" THEN "greeting" ELSE "failed"
<1>1. End(p) /\ UNCHANGED toMcu BY DEF ReadFails
<1>2. p \in {host.phase, "failed"} /\ p # "done" OBVIOUS
<1> HIDE DEF p
<1> QED BY <1>1, <1>2, Ends

\* A pulse goes behind the pulses, and is nobody's command.
LEMMA PulseKeeps == ASSUME IInv, Pulse, UNCHANGED <<file, mcu, doubt>> PROVE IInv'
<1>1. /\ host.phase = "greeting" /\ toMcu' = Append(toMcu, Message("pulse")) /\ toHost' = toHost
      /\ host' = [host EXCEPT !.reading = "head", !.pulses = Min({@ + 1, MaxPulses})]
  BY DEF Pulse
<1>2. HostFields /\ IsSeq(toMcu) BY DEF IInv, Shape, HostFields
<1>3. HostFields' /\ host'.phase = "greeting" /\ host'.offset = host.offset
      /\ host'.magic = host.magic
  BY <1>1, <1>2 DEF HostFields
<1>4. IsSeq(toMcu')
      /\ \A i \in DOMAIN toMcu' : \/ i \in DOMAIN toMcu /\ toMcu'[i] = toMcu[i]
                                  \/ toMcu'[i] = Message("pulse")
  BY <1>1, <1>2, AppendFacts
<1>5. Shape' BY <1>1, <1>3, <1>4 DEF IInv, Shape, Quiet, HostFields
<1>6. Replies' = Replies BY <1>1 DEF Replies
<1>7. \A i \in DOMAIN toMcu' : toMcu'[i] = Message("pulse")
  <2>1. \A i \in DOMAIN toMcu : toMcu[i] = Message("pulse") BY <1>1 DEF IInv, Greeted
  <2> QED BY <1>4, <2>1, Zenon
<1>8. Greeted'
  <2>1. \A i \in Replies : toHost[i].code = "00" BY <1>1 DEF IInv, Greeted
  <2> QED BY <1>1, <1>6, <1>7, <2>1 DEF Greeted
<1>9. Alternates' BY <1>3 DEF Alternates, Quiet
<1>10. Knows' BY <1>1, <1>3 DEF IInv, Knows, Magic
<1>11. \A i \in DOMAIN toMcu' : toMcu'[i].command = "pulse" BY <1>7 DEF Message
<1>12. Alone' BY <1>11 DEF Alone
<1>13. Staged' BY <1>1, <1>3 DEF IInv, Staged, Early
<1>14. Foreign' BY <1>3, <1>11 DEF IInv, Foreign, Unharmed, Address, UnderWay, Late
<1>15. Filling' BY <1>3 DEF Filling
<1> QED BY <1>5, <1>8, <1>9, <1>10, <1>12, <1>13, <1>14, <1>15 DEF IInv

\* The host has the reply it wants: from the handshake's on, nothing else is under way.
LEMMA Replied ==
  ASSUME IInv, toHost # <<>>, host.reading = "rest", Head(toHost).part = "rest",
         Accepts(host.phase, Head(toHost))
  PROVE  /\ host.phase \in {"greeting", "handshake"} \cup Quiet
         /\ Says(toHost, Head(toHost).code)
         /\ host.phase # "greeting" => Says(toHost, Expected[host.phase])
         /\ Head(toHost).magic \in {"none", mcu.magic}
         /\ Garbled(toHost, Left)
         /\ host.phase # "greeting" => toMcu = <<>> /\ Left = <<>>
<1>1. IsSeq(toHost) BY DEF IInv, Shape
<1>2. Len(toHost) \in Nat \ {0} /\ DOMAIN toHost = 1 .. Len(toHost) /\ Head(toHost) = toHost[1]
  BY <1>1, SeqFacts
<1>3. 1 \in Replies BY <1>2 DEF Replies
<1>8. Says(toHost, Head(toHost).code) BY <1>2, 1 \in DOMAIN toHost, Zenon DEF Says
<1>9. host.phase # "greeting" => Says(toHost, Expected[host.phase]) BY <1>8 DEF Accepts
<1>4. host.phase \in {"greeting", "handshake"} \cup Quiet BY DEF IInv, Shape
<1>5. Head(toHost).magic \in {"none", mcu.magic} BY <1>2 DEF IInv, Knows
<1>6. Garbled(toHost, Left)
  <2>1. Thins(toHost, Tail(toHost)) /\ Thins(toHost, <<>>) BY <1>1, TailThins, NothingThins
  <2>2. Garbled(toHost, Tail(toHost)) /\ Garbled(toHost, <<>>) BY <2>1, ThinsGarbled
  <2> QED BY <2>2 DEF Left
<1>7. ASSUME host.phase # "greeting" PROVE toMcu = <<>> /\ Left = <<>>
  <2>1. 1 = Len(toHost) /\ toMcu = <<>>
    <3>1. CASE host.phase = "handshake"
      <4>1. \A i \in Replies :
              \/ toHost[i].code = "00"
              \/ host.phase = "handshake" /\ i = Len(toHost) /\ toMcu = <<>>
        BY <3>1 DEF IInv, Greeted
      <4>2. toHost[1].code = "8F" BY <1>2, <3>1 DEF Accepts, Expected
      <4> QED BY <1>3, <4>1, <4>2
    <3>2. CASE host.phase \in Quiet
      <4>1. (toMcu # <<>> => toHost = <<>>) /\ \A i \in Replies : i = Len(toHost)
        BY <3>2 DEF IInv, Alternates
      <4> QED BY <1>3, <4>1
    <3> QED BY <1>4, <1>7, <3>1, <3>2
  <2>2. IsSeq(Tail(toHost)) /\ Len(Tail(toHost)) = 0 BY <1>1, <2>1, TailFacts
  <2>3. Tail(toHost) = <<>> BY <2>2, NoneLeft, Zenon
  <2> QED BY <2>1, <2>3 DEF Left
<1> QED BY <1>4, <1>5, <1>6, <1>7, <1>8, <1>9

\* With the line empty the next command alone is under way, if its phase has what it
\* needs of the part and of the flash.
LEMMA SendsNext ==
  ASSUME IInv, host.phase \notin {"greeting", "failed"}, toMcu = <<>>, toHost' = <<>>,
         UNCHANGED <<file, mcu, doubt>>, NEW m, m = Waiting', toMcu' = Append(toMcu, m),
         HostFields', host'.magic = host.magic,
         \/ host'.phase \in Quiet
         \/ host'.phase = "done" /\ host'.reading = "none",
         mcu.magic = "stc15" => host'.phase \in {"baudtest", "baudswitch"},
         host'.phase \in {"baudtest", "baudswitch"} => mcu.state \in Early,
         host'.phase = "erase" => mcu.state = "negotiated",
         host'.phase = "write" => mcu.state = "programming",
         host'.phase \in {"finish", "done"} => mcu.state \in Late,
         Fits =>
           /\ host'.phase = "write" =>
                /\ \E k \in Nat : host'.offset = k * Block
                /\ host'.offset < PaddedSize(file)
                /\ Matches(mcu.flash, Filled(host'.offset), doubt)
           /\ host'.phase \in {"finish", "done"} => Matches(mcu.flash, Image, doubt)
  PROVE  IInv'
<1>1. IsSeq(toMcu) BY DEF IInv, Shape
<1>2. IsSeq(toMcu') /\ Len(toMcu') = 1 /\ \A i \in DOMAIN toMcu' : toMcu'[i] = m
  <2>1. Len(toMcu) = 0 /\ DOMAIN toMcu = {} BY EmptyIsSeq
  <2>2. IsSeq(toMcu') /\ Len(toMcu') = Len(toMcu) + 1
        /\ \A i \in DOMAIN toMcu' : \/ i \in DOMAIN toMcu /\ toMcu'[i] = toMcu[i]
                                    \/ toMcu'[i] = m
    BY <1>1, AppendFacts
  <2>3. \A i \in DOMAIN toMcu' : toMcu'[i] = m BY <2>1, <2>2, Zenon
  <2> QED BY <2>1, <2>2, <2>3
<1>3. IsSeq(toHost') /\ DOMAIN toHost' = {} BY EmptyIsSeq
<1>4. Replies' = {} /\ \A c : ~Says(toHost', c) BY <1>3 DEF Replies, Says
<1>5. Shape' BY <1>2, <1>3 DEF IInv, Shape, Quiet, HostFields
<1>6. Alone' BY <1>2, SeqFacts DEF Alone
<1>7. Greeted' BY DEF Greeted, Quiet
<1>8. Alternates'
  <2>1. \A i \in DOMAIN toMcu' : Carries(toMcu'[i], Waiting', doubt') BY <1>2 DEF Carries
  <2> QED BY <1>2, <1>4, <2>1 DEF Alternates
<1>9. Knows' BY <1>3 DEF IInv, Knows, Magic
<1>10. Staged' BY <1>4 DEF Staged, Quiet
<1>11. Foreign' BY DEF IInv, Foreign, Unharmed, Address, Late, Early
<1>12. Filling'
  <2> SUFFICES ASSUME Fits PROVE Filling' BY FileSame DEF Filling
  <2>1. Image' = Image /\ PaddedSize(file)' = PaddedSize(file) BY FileSame
  <2>2. Filled(host.offset)' = Filled(host'.offset) BY DEF Filled
  <2> QED BY <1>4, <2>1, <2>2 DEF Filling, Quiet
<1> QED BY <1>5, <1>6, <1>7, <1>8, <1>9, <1>10, <1>11, <1>12 DEF IInv

\* A command sent with the line empty, and the host that waits for its reply.
LEMMA SendFacts ==
  ASSUME HostFields, NEW p, NEW m, Send(p, m)
  PROVE  /\ HostFields' /\ host'.phase = p /\ host'.offset = m.offset /\ host'.magic = host.magic
         /\ toMcu' = Append(toMcu, m)
  BY DEF HostFields, Send

\* Every command that follows an accepted reply keeps the invariant.
LEMMA ProceedKeeps ==
  ASSUME IInv, toHost # <<>>, host.reading = "rest", Head(toHost).part = "rest",
         Accepts(host.phase, Head(toHost)), Proceed(Head(toHost)), toHost' = Left,
         UNCHANGED <<file, mcu, doubt>>
  PROVE  IInv'
<1>1. HostFields /\ IsSeq(toMcu) /\ IsSeq(toHost) BY DEF IInv, Shape, HostFields
<1>2. Garbled(toHost, toHost') BY Replied
<1>3. host.phase # "greeting" => toMcu = <<>> /\ toHost' = <<>> BY Replied
<1>4. host.phase # "greeting" => Says(toHost, Expected[host.phase]) BY Replied
<1>5. \A o : WriteAt(o).offset = o BY DEF WriteAt
<1>6. \A o : WriteAt(o)' = WriteAt(o) BY DEF WriteAt
<1>7. Block \in Nat \ {0} BY FlashAssumption
\* Past the baud switch the part speaks the protocol.
<1>8. host.phase \in {"erase", "write", "finish"} => mcu.magic # "stc15" BY DEF IInv, Foreign
<1>9. CASE host.phase = "greeting"
  <2> DEFINE w == Head(toHost).magic
  <2>1. /\ host' = [host EXCEPT !.phase = "handshake", !.reading = "head", !.magic = w]
        /\ toMcu' = Append(toMcu, Message("handshake"))
    BY <1>9 DEF Proceed
  <2>2. w = mcu.magic
    <3>1. w # "none" BY <1>9 DEF Accepts
    <3>2. w \in {"none", mcu.magic} BY Replied
    <3> QED BY <3>1, <3>2
  <2> HIDE DEF w
  <2>3. HostFields' /\ host'.phase = "handshake" /\ host'.magic = mcu.magic
    BY <1>1, <2>1, <2>2 DEF HostFields
  <2>4. IsSeq(toMcu') /\ Len(toMcu') = Len(toMcu) + 1
        /\ \A i \in DOMAIN toMcu' : \/ i \in DOMAIN toMcu /\ toMcu'[i] = toMcu[i]
                                    \/ i = Len(toMcu) + 1 /\ toMcu'[i] = Message("handshake")
    BY <1>1, <2>1, AppendFacts
  <2>5. IsSeq(toHost') BY <1>2 DEF Garbled
  <2>6. Shape' BY <1>9, <2>3, <2>4, <2>5 DEF IInv, Shape, Quiet, HostFields
  <2>7. \A i \in Replies' : \E j \in Replies : toHost'[i] = toHost[j]
    BY <1>1, <1>2, StillReplies, Zenon
  <2>8. \A i \in DOMAIN toMcu : toMcu[i] = Message("pulse") BY <1>9 DEF IInv, Greeted
  <2>9. mcu.state \in Early BY <1>9 DEF IInv, Staged
  <2>10. Greeted'
    <3>1. Waiting' = Message("handshake") BY <2>3 DEF Waiting, Message
    <3>2. Carries(Message("handshake"), Waiting', doubt') BY <3>1 DEF Carries
    <3>3. \A i \in Replies : toHost[i].code = "00" BY <1>9 DEF IInv, Greeted
    <3>4. \A i \in Replies' : toHost'[i].code = "00" BY <2>7, <3>3, Zenon
    <3>5. \A i \in DOMAIN toMcu' : \/ toMcu'[i] = Message("pulse")
                                   \/ i = Len(toMcu') /\ Carries(toMcu'[i], Waiting', doubt')
      BY <2>4, <2>8, <3>2, Zenon
    <3> QED BY <2>3, <3>4, <3>5 DEF Greeted
  <2>11. Alone'
    <3>1. \A i \in DOMAIN toMcu : toMcu[i].command = "pulse" BY <2>8 DEF Message
    <3>2. \A i \in DOMAIN toMcu' : toMcu'[i].command = "pulse" \/ i = Len(toMcu')
      BY <2>4, <3>1, Zenon
    <3> QED BY <3>2, Zenon DEF Alone
  <2>12. Alternates' BY <2>3 DEF Alternates, Quiet
  <2>13. Knows'
    <3>1. \A i \in DOMAIN toHost' : toHost'[i].magic = "none"
           \/ \E j \in DOMAIN toHost : toHost'[i].magic = toHost[j].magic
      BY <1>1, <1>2, StillReplies, Zenon
    <3> QED BY <2>3, <3>1 DEF IInv, Knows, Magic
  <2>14. Staged' BY <2>3, <2>9 DEF Staged, Early
  <2>15. Foreign' BY <2>3, <2>9 DEF IInv, Foreign, Unharmed, Address, Early, Late
  <2>16. Filling' BY <2>3 DEF Filling
  <2> QED BY <2>6, <2>10, <2>11, <2>12, <2>13, <2>14, <2>15, <2>16 DEF IInv
<1>10. CASE host.phase = "handshake"
  <2>1. Send("baudtest", Message("baud test")) BY <1>10 DEF Proceed
  <2>2. HostFields' /\ host'.phase = "baudtest" /\ host'.magic = host.magic
        /\ toMcu' = Append(toMcu, Message("baud test"))
    BY <1>1, <2>1, SendFacts
  <2>3. Message("baud test") = Waiting' BY <2>2 DEF Waiting, Message
  <2>4. mcu.state \in Early BY <1>4, <1>10 DEF IInv, Staged, Expected
  <2> QED BY <1>3, <1>10, <2>2, <2>3, <2>4, SendsNext DEF Quiet
<1>11. CASE host.phase = "baudtest"
  <2>1. Send("baudswitch", Message("baud switch")) BY <1>11 DEF Proceed
  <2>2. HostFields' /\ host'.phase = "baudswitch" /\ host'.magic = host.magic
        /\ toMcu' = Append(toMcu, Message("baud switch"))
    BY <1>1, <2>1, SendFacts
  <2>3. Message("baud switch") = Waiting' BY <2>2 DEF Waiting, Message
  <2>4. mcu.state \in Early BY <1>4, <1>11 DEF IInv, Staged, Expected
  <2> QED BY <1>3, <1>11, <2>2, <2>3, <2>4, SendsNext DEF Quiet
<1>12. CASE host.phase = "baudswitch"
  <2>1. CASE Speaks(host.magic)
    <3>1. Send("erase", Message("erase")) BY <1>12, <2>1 DEF Proceed
    <3>2. HostFields' /\ host'.phase = "erase" /\ host'.magic = host.magic
          /\ toMcu' = Append(toMcu, Message("erase"))
      BY <1>1, <3>1, SendFacts
    <3>3. Message("erase") = Waiting' BY <3>2 DEF Waiting, Message
    <3>4. mcu.magic # "stc15" BY <1>12, <2>1 DEF IInv, Knows, Speaks
    <3>5. mcu.state = "negotiated" BY <1>4, <1>12 DEF IInv, Staged, Expected
    <3> QED BY <1>3, <1>12, <3>2, <3>3, <3>4, <3>5, SendsNext DEF Quiet
  <2>2. CASE ~Speaks(host.magic)
    <3>1. End("failed") /\ UNCHANGED toMcu BY <1>12, <2>2 DEF Proceed
    <3> QED BY <1>2, <3>1, Ends
  <2> QED BY <2>1, <2>2
<1>13. CASE host.phase = "erase"
  <2>1. Send("write", WriteAt(0)) BY <1>13 DEF Proceed
  <2>2. HostFields' /\ host'.phase = "write" /\ host'.magic = host.magic /\ host'.offset = 0
        /\ toMcu' = Append(toMcu, WriteAt(0))
    BY <1>1, <1>5, <2>1, SendFacts
  <2>3. WriteAt(0) = Waiting' BY <2>2 DEF Waiting, WriteAt
  <2>4. ASSUME Fits
        PROVE  /\ \E k \in Nat : host'.offset = k * Block
               /\ host'.offset < PaddedSize(file)
               /\ Matches(mcu.flash, Filled(host'.offset), doubt)
    <3>1. host'.offset = 0 * Block BY <1>7, <2>2
    <3>2. PaddedSize(file) \in Nat \ {0} BY <1>13, <2>4, PaddedFacts DEF IInv, Shape
    <3>3. Matches(mcu.flash, Filled(0), doubt)
      BY <1>4, <1>13, <2>4 DEF IInv, Filling, Expected
    <3> QED BY <2>2, <3>1, <3>2, <3>3
  <2>5. mcu.state = "programming" BY <1>4, <1>13 DEF IInv, Staged, Expected
  <2> QED BY <1>3, <1>8, <1>13, <2>2, <2>3, <2>4, <2>5, SendsNext DEF Quiet
<1>14. CASE host.phase = "write" /\ More(host.offset) /\ Send("write", WriteAt(host.offset + Block))
  <2> DEFINE o == host.offset + Block
  <2>1. HostFields' /\ host'.phase = "write" /\ host'.magic = host.magic /\ host'.offset = o
        /\ toMcu' = Append(toMcu, WriteAt(o))
    BY <1>1, <1>5, <1>14, SendFacts
  <2>2. WriteAt(o) = Waiting'
    <3> HIDE DEF o
    <3> QED BY <2>1 DEF Waiting, WriteAt
  <2>3. ASSUME Fits
        PROVE  /\ \E k \in Nat : host'.offset = k * Block
               /\ host'.offset < PaddedSize(file)
               /\ Matches(mcu.flash, Filled(host'.offset), doubt)
    <3>1. PICK k \in Nat : host.offset = k * Block BY <1>14, <2>3 DEF IInv, Filling
    <3>2. host'.offset = (k + 1) * Block BY <1>7, <2>1, <3>1, SMTT(30)
    <3>3. o < PaddedSize(file) BY <1>14 DEF More
    <3>4. Matches(mcu.flash, Filled(o), doubt)
      BY <1>4, <1>14, <2>3 DEF IInv, Filling, Expected
    <3> QED BY <2>1, <3>2, <3>3, <3>4
  <2>4. mcu.state = "programming" BY <1>4, <1>14 DEF IInv, Staged, Expected
  <2> QED BY <1>3, <1>8, <1>14, <2>1, <2>2, <2>3, <2>4, SendsNext DEF Quiet
<1>15. CASE host.phase = "write" /\ ~More(host.offset) /\ Send("finish", Message("finish"))
  <2>1. HostFields' /\ host'.phase = "finish" /\ host'.magic = host.magic
        /\ toMcu' = Append(toMcu, Message("finish"))
    BY <1>1, <1>15, SendFacts
  <2>2. Message("finish") = Waiting' BY <2>1 DEF Waiting, Message
  <2>3. ASSUME Fits PROVE Matches(mcu.flash, Image, doubt)
    <3>1. PICK k \in Nat : host.offset = k * Block BY <1>15, <2>3 DEF IInv, Filling
    <3>2. k * Block \in Nat BY <1>7, Times
    <3>3. Parses(file) /\ PaddedSize(file) \in Nat BY <1>15, <2>3, PaddedFacts DEF IInv, Shape
    <3>4. host.offset + Block \in Nat /\ host.offset + Block >= PaddedSize(file)
      BY <1>7, <1>15, <3>1, <3>2, <3>3 DEF More
    <3>5. Filled(host.offset + Block) = Image BY <2>3, <3>3, <3>4, FilledAll
    <3>6. Matches(mcu.flash, Filled(host.offset + Block), doubt)
      BY <1>4, <1>15, <2>3 DEF IInv, Filling, Expected
    <3> QED BY <3>5, <3>6
  <2>4. mcu.state \in Late BY <1>4, <1>15 DEF IInv, Staged, Expected, Late
  <2> QED BY <1>3, <1>8, <1>15, <2>1, <2>2, <2>3, <2>4, SendsNext DEF Quiet
<1>16. CASE host.phase = "finish"
  <2>1. host' = [host EXCEPT !.phase = "done", !.reading = "none"]
        /\ toMcu' = Append(toMcu, Message("reset"))
    BY <1>16 DEF Proceed, End
  <2>2. HostFields' /\ host'.phase = "done" /\ host'.reading = "none" /\ host'.magic = host.magic
    BY <1>1, <2>1 DEF HostFields
  <2>3. Fits => Matches(mcu.flash, Image, doubt) BY <1>16 DEF IInv, Filling
  <2>4. mcu.state \in Late BY <1>16 DEF IInv, Staged
  <2>5. Message("reset") = Waiting' BY <2>2 DEF Waiting, Message
  <2> QED BY <1>3, <1>8, <1>16, <2>1, <2>2, <2>3, <2>4, <2>5, SendsNext DEF Quiet
<1> QED BY <1>9, <1>10, <1>11, <1>12, <1>13, <1>14, <1>15, <1>16 DEF Proceed

\* Every step of the host keeps the invariant.
LEMMA HostKeeps == IInv /\ HostStep => IInv'
<1> SUFFICES ASSUME IInv, HostStep PROVE IInv' OBVIOUS
<1>1. UNCHANGED <<file, mcu, doubt>> /\ (Pulse \/ GiveUp \/ Timeout \/ ReadFraming \/ ReadRest)
  BY DEF HostStep
<1>2. IsSeq(toHost) /\ HostFields BY DEF IInv, Shape, HostFields
<1>3. Garbled(toHost, toHost) BY <1>2, SameThins, ThinsGarbled
<1>4. toHost # <<>> => Garbled(toHost, Tail(toHost)) BY <1>2, TailThins, ThinsGarbled
<1>5. CASE Pulse BY <1>1, <1>5, PulseKeeps
<1>6. CASE GiveUp BY <1>1, <1>3, <1>6, Ends DEF GiveUp
<1>7. CASE Timeout BY <1>1, <1>3, <1>7, Fails DEF Timeout
<1>8. CASE ReadFraming
  <2>1. toHost # <<>> /\ host.reading \in {"head", "second", "direction"} /\ toHost' = Tail(toHost)
    BY <1>8 DEF ReadFraming
  <2>2. CASE ReadFails BY <1>1, <1>4, <2>1, <2>2, Fails
  <2>3. CASE ~ReadFails
    <3> DEFINE f == Follows(host.reading, Head(toHost).part)
    <3>1. host' = [host EXCEPT !.reading = f] /\ UNCHANGED toMcu
      BY <1>8, <2>3, Zenon DEF ReadFraming
    <3> HIDE DEF f
    <3>2. HostFields' /\ host'.phase = host.phase /\ host'.offset = host.offset
          /\ host'.magic = host.magic
      BY <1>2, <3>1 DEF HostFields
    <3>3. host.phase \notin {"done", "failed"} BY <2>1 DEF IInv, Shape
    <3>4. Thins(toMcu, toMcu') BY <3>1, SameThins DEF IInv, Shape
    <3> QED BY <1>1, <1>4, <2>1, <3>1, <3>2, <3>3, <3>4, ReadsOn
  <2> QED BY <2>2, <2>3
<1>9. CASE ReadRest
  <2>1. toHost # <<>> /\ host.reading = "rest" /\ toHost' = Left BY <1>9 DEF ReadRest
  <2>2. Garbled(toHost, toHost')
    <3>1. Garbled(toHost, <<>>) BY <1>2, NothingThins, ThinsGarbled
    <3> QED BY <1>4, <2>1, <3>1 DEF Left
  <2>3. CASE ReadFails BY <1>1, <2>1, <2>2, <2>3, Fails
  <2>4. CASE End("failed") /\ UNCHANGED toMcu BY <1>1, <2>2, <2>4, Ends
  <2>5. CASE Head(toHost).part = "rest" /\ Accepts(host.phase, Head(toHost))
             /\ Proceed(Head(toHost))
    BY <1>1, <2>1, <2>5, ProceedKeeps
  <2> QED BY <1>9, <2>3, <2>4, <2>5 DEF ReadRest
<1> QED BY <1>1, <1>5, <1>6, <1>7, <1>8, <1>9

-------------------------------------------------------------------------------
(* The specification. *)

\* With nothing sent yet.
LEMMA InitKeeps == Init => IInv
<1> SUFFICES ASSUME Init PROVE IInv OBVIOUS
<1>1. toMcu = <<>> /\ toHost = <<>> /\ host.reading = "none"
      /\ host.phase = (IF Parses(file) THEN "greeting" ELSE "failed")
      /\ {"phase", "reading", "offset", "magic"} \subseteq DOMAIN host
  BY DEF Init
<1>2. /\ {"state", "magic", "flash"} \subseteq DOMAIN mcu /\ mcu.state = "idle"
      /\ mcu.magic \in Magic /\ mcu.flash = [a \in Address |-> Erased - 1]
  BY DEF Init
<1>3. IsSeq(<<>>) /\ DOMAIN <<>> = {} BY EmptyIsSeq
<1>4. /\ Replies = {} /\ ~UnderWay(toMcu) /\ \A c : ~Says(toHost, c)
      /\ host.phase \in {"greeting", "failed"}
  BY <1>1, <1>3 DEF Replies, UnderWay, Says
<1>5. Shape BY <1>1, <1>2, <1>3 DEF Shape
<1>6. Alone /\ Greeted /\ Alternates BY <1>1, <1>3, <1>4 DEF Alone, Greeted, Alternates, Quiet
<1>7. Knows BY <1>1, <1>2, <1>3 DEF Knows
<1>8. Foreign BY <1>2, <1>4 DEF Foreign, Unharmed, Late
<1>9. Staged /\ Filling BY <1>2, <1>4 DEF Staged, Filling, Early
<1> QED BY <1>5, <1>6, <1>7, <1>8, <1>9 DEF IInv

\* One command at a time is under way once the greeting is over, as it was sent or as the
\* line garbled it, and an accepted reply tells in which state the boot ROM is and, but for
\* the addresses of garbled writes, what is in the flash.
THEOREM Invariance == Spec => []IInv
<1>1. IInv /\ UNCHANGED vars => IInv'
  <2> SUFFICES ASSUME IInv, UNCHANGED vars PROVE IInv' OBVIOUS
  <2>1. IsSeq(toHost) /\ IsSeq(toMcu) BY DEF IInv, Shape
  <2>2. Thins(toMcu, toMcu') BY <2>1, SameThins DEF vars
  <2> QED BY <2>2, EatsOne DEF vars
<1>2. IInv /\ [Next]_vars => IInv'
  BY <1>1, HostKeeps, McuKeeps, LineKeeps DEF Next
<1> QED BY <1>2, InitKeeps, PTL DEF Spec

\* A success reported is an image in the flash, but at the addresses a garbled write was
\* for or went to, and a part of another protocol is left alone, whatever the line loses,
\* garbles or holds back.
THEOREM FlashTheorem == Spec => []FlashedIsImage
<1>1. IInv => FlashedIsImage
  <2> SUFFICES ASSUME IInv PROVE FlashedIsImage OBVIOUS
  <2>1. host.phase = "done" /\ Fits => Matches(mcu.flash, Image, doubt) BY DEF IInv, Filling
  <2>2. host.phase = "done" /\ Fits => \A a \in Address \ doubt :
           mcu.flash[a] = IF a \in Written(file) THEN ValueAt(file, a) ELSE Erased
    BY <2>1 DEF Matches, Image
  <2>3. mcu.magic = "stc15" => Unharmed BY DEF IInv, Foreign
  <2> QED BY <2>2, <2>3, Zenon DEF FlashedIsImage, Fits
<1> QED BY <1>1, Invariance, PTL
=============================================================================
