---------------------------- MODULE FileIOProofs ----------------------------
(***************************************************************************)
(* The tables of fileio.c and host.c agree, for tables of any size and any  *)
(* sequence of calls; with no more FILEs than the host has slots, it never  *)
(* runs out of them; where names are read from the memory they are in, a    *)
(* FILE is the file it was opened for.  And the two tables together          *)
(* implement one table of files, Stdio.                                     *)
(***************************************************************************)
EXTENDS FileIOAsStdio, FiniteSetTheorems, SequenceTheorems, WellFoundedInduction, TLAPS

-----------------------------------------------------------------------------
(* The host                                                                *)

AllHandles == StdHandles \cup Handles

(* A call that neither opens nor closes.                                    *)
SameFiles(h, g) ==
  \A n \in AllHandles : /\ g.files[n].mode = h.files[n].mode
                        /\ g.files[n].name = h.files[n].name

LEMMA HandlesAreNumbers ==
  /\ AllHandles \subseteq Int /\ Handles \subseteq Nat \ {0}
  /\ StdHandles \cap Handles = {} /\ 0 \notin AllHandles
  /\ \A n \in Handles : n \in Int /\ n > 0
  /\ \A n \in StdHandles : n \in Int /\ n < 0
  /\ \A n \in StdHandles \cup 0 .. HostSlots : n \in Int
  BY HostSlotsAssumption, StdHandlesAssumption DEF AllHandles, Handles

LEMMA FileUpdate ==
  ASSUME NEW h \in HostType, NEW n \in AllHandles, NEW g \in FileType
  PROVE  LET r == [h EXCEPT !.files[n] = g]
         IN  /\ r \in HostType
             /\ r.files = [h.files EXCEPT ![n] = g] /\ r.data = h.data
  BY DEF HostType, AllHandles

LEMMA DataUpdate ==
  ASSUME NEW h \in HostType, NEW f \in AllNames, NEW d \in Seq(Byte)
  PROVE  LET r == [h EXCEPT !.data[f] = d]
         IN  r \in HostType /\ r.files = h.files
  BY DEF HostType

LEMMA OverwriteType ==
  ASSUME NEW s \in Seq(Byte), NEW pos \in Nat, NEW b \in Byte
  PROVE  Overwrite(s, pos, b) \in Seq(Byte)
<1> DEFINE len == IF pos < Len(s) THEN Len(s) ELSE pos + 1
           e(k) == CASE k = pos + 1 -> b
                     [] k <= Len(s) /\ k # pos + 1 -> s[k]
                     [] OTHER -> "nul"
<1>1. len \in Nat
  OBVIOUS
<1>2. \A k \in 1 .. len : e(k) \in Byte
  <2>1. "nul" \in Byte
    BY DEF Byte
  <2>2. \A k \in 1 .. Len(s) : s[k] \in Byte
    OBVIOUS
  <2> HIDE DEF len
  <2> QED BY <1>1, <2>1, <2>2
<1>3. Overwrite(s, pos, b) = [k \in 1 .. len |-> e(k)]
  BY DEF Overwrite
<1> HIDE DEF len, e
<1>4. Overwrite(s, pos, b) \in [1 .. len -> Byte]
  BY <1>2, <1>3
<1> QED BY <1>1, <1>4, SeqDef

LEMMA OpenFiles ==
  ASSUME NEW h \in HostType, NEW n, IsOpen(h, n)
  PROVE  n \in AllHandles /\ h.files[n] \in OpenFile
  BY DEF HostType, AllHandles, IsOpen, FileType, ClosedFile

(* One field of the FILE changes, or two.                                   *)
LEMMA Moved ==
  ASSUME NEW h \in HostType, NEW n, IsOpen(h, n), NEW g \in OpenFile,
         g.mode = h.files[n].mode, g.name = h.files[n].name
  PROVE  LET r == [h EXCEPT !.files[n] = g]
         IN  r \in HostType /\ SameFiles(h, r)
<1> DEFINE r == [h EXCEPT !.files[n] = g]
<1>1. n \in AllHandles /\ g \in FileType
  BY OpenFiles DEF FileType
<1>2. r \in HostType /\ r.files = [h.files EXCEPT ![n] = g]
  BY <1>1, FileUpdate
<1> HIDE DEF r
<1>3. SameFiles(h, r)
  BY <1>1, <1>2 DEF SameFiles, HostType, AllHandles
<1> QED BY <1>2, <1>3 DEF r

LEMMA WriteByteKeeps ==
  ASSUME NEW h \in HostType, NEW n, NEW b \in Byte, IsOpen(h, n)
  PROVE  LET r == WriteByte(h, n, b)
         IN  r.host \in HostType /\ SameFiles(h, r.host) /\ r.left = "no"
<1> DEFINE f == h.files[n]
           g == [f EXCEPT !.pos = @ + 1]
           a == [h EXCEPT !.files[n] = g]
           d == Overwrite(a.data[f.name], f.pos, b)
           c == [a EXCEPT !.data[f.name] = d]
<1>1. f \in OpenFile
  BY OpenFiles
<1>2. g \in OpenFile /\ g.mode = f.mode /\ g.name = f.name
  BY <1>1 DEF OpenFile
<1>3. Advance(h, n) = a
  BY DEF Advance, HostType
<1>4. WriteByte(h, n, b) \in {Done(c, 0), Done(h, 0)}
  BY <1>3 DEF WriteByte
<1> HIDE DEF g
<1>5. a \in HostType /\ SameFiles(h, a)
  BY <1>2, Moved
<1> HIDE DEF a
<1>6. c \in HostType /\ c.files = a.files
  <2>1. a.data[f.name] \in Seq(Byte) /\ f.pos \in Nat /\ f.name \in AllNames
    BY <1>1, <1>5 DEF HostType, OpenFile
  <2>2. d \in Seq(Byte)
    BY <2>1, OverwriteType
  <2> HIDE DEF d, f
  <2> QED BY <1>5, <2>1, <2>2, DataUpdate
<1> HIDE DEF c, f
<1>7. SameFiles(h, c) /\ SameFiles(h, h)
  BY <1>5, <1>6 DEF SameFiles
<1> QED BY <1>4, <1>6, <1>7 DEF Done

LEMMA ReadByteKeeps ==
  ASSUME NEW h \in HostType, NEW n, IsOpen(h, n)
  PROVE  LET r == ReadByte(h, n)
         IN  r.host \in HostType /\ SameFiles(h, r.host) /\ r.left = "no"
<1> DEFINE f == h.files[n]
           g == [f EXCEPT !.pos = @ + 1]
           e == [f EXCEPT !.eof = TRUE]
           a == [h EXCEPT !.files[n] = g]
           c == [h EXCEPT !.files[n] = e]
<1>1. f \in OpenFile
  BY OpenFiles
<1>2. /\ g \in OpenFile /\ g.mode = f.mode /\ g.name = f.name
      /\ e \in OpenFile /\ e.mode = f.mode /\ e.name = f.name
  <2>1. g \in OpenFile /\ g.mode = f.mode /\ g.name = f.name
    BY <1>1 DEF OpenFile
  <2>2. e \in OpenFile /\ e.mode = f.mode /\ e.name = f.name
    BY <1>1 DEF OpenFile
  <2> QED BY <2>1, <2>2
<1>3. Advance(h, n) = a /\ [h EXCEPT !.files[n].eof = TRUE] = c
  BY DEF Advance, HostType
<1>4. ReadByte(h, n) \in {Done(a, 0), Done(c, 0), Done(h, 0)}
  BY <1>3 DEF ReadByte
<1> HIDE DEF g, e
<1>5. a \in HostType /\ SameFiles(h, a) /\ c \in HostType /\ SameFiles(h, c)
  BY <1>2, Moved
<1>6. SameFiles(h, h)
  BY DEF SameFiles
<1> HIDE DEF a, c
<1> QED BY <1>4, <1>5, <1>6 DEF Done

LEMMA ClearerrKeeps ==
  ASSUME NEW h \in HostType, NEW n, IsOpen(h, n)
  PROVE  LET r == Clearerr(h, n)
         IN  r.host \in HostType /\ SameFiles(h, r.host) /\ r.left = "no"
<1> DEFINE f == h.files[n]
           e == [f EXCEPT !.eof = FALSE]
           c == [h EXCEPT !.files[n] = e]
<1>1. f \in OpenFile
  BY OpenFiles
<1>2. e \in OpenFile /\ e.mode = f.mode /\ e.name = f.name
  BY <1>1 DEF OpenFile
<1>3. Clearerr(h, n) = Done(c, 0)
  BY DEF Clearerr, HostType
<1> HIDE DEF e
<1>4. c \in HostType /\ SameFiles(h, c)
  BY <1>2, Moved
<1> HIDE DEF c
<1> QED BY <1>3, <1>4 DEF Done

LEMMA SeekKeeps ==
  ASSUME NEW h \in HostType, NEW n \in Nat, NEW delta \in Int,
         NEW whence \in 0 .. 3
  PROVE  LET r == FileioSeek(h, n, delta, whence)
         IN  /\ r.host \in HostType /\ SameFiles(h, r.host)
             /\ r.left \in {"no", "notopen", "whence"}
<1> SUFFICES ASSUME IsOpen(h, n)
             PROVE  LET r == FileioSeek(h, n, delta, whence)
                    IN  /\ r.host \in HostType /\ SameFiles(h, r.host)
                        /\ r.left \in {"no", "notopen", "whence"}
  BY DEF FileioSeek, Leave, SameFiles
<1> DEFINE f == h.files[n]
           len == Len(h.data[f.name])
           at == delta + CASE whence = 0 -> 0
                           [] whence = 1 -> f.pos
                           [] whence > 1 -> len
           e == [f EXCEPT !.pos = at]
           a == [h EXCEPT !.files[n] = e]
<1>1. f \in OpenFile /\ f.pos \in Nat /\ len \in Nat
  <2>1. f \in OpenFile
    BY OpenFiles
  <2>2. h.data[f.name] \in Seq(Byte)
    BY <2>1 DEF OpenFile, HostType
  <2> QED BY <2>1, <2>2 DEF OpenFile
<1>2. at \in Int
  <2> HIDE DEF len, f
  <2> QED BY <1>1
<1>3. n > 0
  BY OpenFiles, HandlesAreNumbers
<1>4. FileioSeek(h, n, delta, whence)
        = IF whence > 2 THEN Leave(h, "whence")
          ELSE IF at < 0 THEN Done(h, 0) ELSE Clearerr(a, n)
  <2>1. [h EXCEPT !.files[n].pos = at] = a
    BY DEF HostType
  <2> HIDE DEF a
  <2> QED BY <1>3, <2>1 DEF FileioSeek, Fseek
<1> HIDE DEF at
<1>5. ASSUME at >= 0
      PROVE  a \in HostType /\ SameFiles(h, a)
  <2>1. at \in Nat
    BY <1>2, <1>5
  <2>2. e \in OpenFile /\ e.mode = f.mode /\ e.name = f.name
    BY <1>1, <2>1 DEF OpenFile
  <2> HIDE DEF e
  <2> QED BY <2>2, Moved
<1> HIDE DEF a
<1>6. ASSUME at >= 0
      PROVE  LET r == Clearerr(a, n)
             IN  r.host \in HostType /\ SameFiles(h, r.host) /\ r.left = "no"
  <2>1. IsOpen(a, n)
    BY <1>5, <1>6 DEF SameFiles, IsOpen, AllHandles
  <2> QED BY <1>5, <1>6, <2>1, ClearerrKeeps DEF SameFiles
<1>7. SameFiles(h, h)
  BY DEF SameFiles
<1> QED BY <1>2, <1>4, <1>6, <1>7 DEF Done, Leave

LEMMA FileioKeeps ==
  ASSUME NEW h \in HostType, NEW f \in Functions \ {"fclose"}, NEW n,
         NEW b \in Byte
  PROVE  LET r == Fileio(h, f, n, b)
         IN  /\ r.host \in HostType /\ SameFiles(h, r.host)
             /\ r.left \in {"no", "notopen"}
<1>1. CASE IsOpen(h, n)
  <2>1. Fputc(h, n, b) \in {Done(h, 0), WriteByte(h, n, b)}
    BY DEF Fputc
  <2>2. Fileio(h, f, n, b) \in {Done(h, 0), ReadByte(h, n), Fputc(h, n, b),
                                WriteByte(h, n, b), Clearerr(h, n)}
    BY <1>1, Zenon DEF Fileio, Functions
  <2> QED BY <1>1, <2>1, <2>2, WriteByteKeeps, ReadByteKeeps, ClearerrKeeps
          DEF Done, SameFiles
<1>2. CASE ~IsOpen(h, n)
  <2>1. Fileio(h, f, n, b) \in {Done(h, 0), Leave(h, "notopen")}
    BY <1>2 DEF Fileio
  <2> QED BY <2>1 DEF Done, Leave, SameFiles
<1> QED BY <1>1, <1>2

LEMMA FcloseEffect ==
  ASSUME NEW h \in HostType, NEW n \in Int, NEW b
  PROVE  LET r == Fileio(h, "fclose", n, b)
         IN  /\ r.host \in HostType
             /\ r.left = IF IsOpen(h, n) THEN "no" ELSE "notopen"
             /\ r.host.files = IF IsOpen(h, n) /\ n > 0
                               THEN [h.files EXCEPT ![n] = ClosedFile]
                               ELSE h.files
<1> DEFINE c == [h EXCEPT !.files[n] = ClosedFile]
<1>1. CASE IsOpen(h, n)
  <2>1. Fileio(h, "fclose", n, b) = IF n > 0 THEN Done(c, 0) ELSE Done(h, 0)
    BY <1>1 DEF Fileio, Fclose
  <2>2. c \in HostType /\ c.files = [h.files EXCEPT ![n] = ClosedFile]
    BY <1>1, OpenFiles, FileUpdate DEF FileType
  <2> HIDE DEF c
  <2> QED BY <1>1, <2>1, <2>2 DEF Done
<1>2. CASE ~IsOpen(h, n)
  BY <1>2 DEF Fileio, Leave
<1> QED BY <1>1, <1>2

LEMMA Least ==
  ASSUME NEW T, T \subseteq Nat, T # {}
  PROVE  \E x \in T : \A y \in T : x <= y
<1> DEFINE R == {ss \in Nat \X Nat : ss[1] < ss[2]}
<1>1. IsWellFoundedOn(R, Nat)
  BY NatLessThanWellFounded, Zenon DEF OpToRel
<1> HIDE DEF R
<1>2. PICK x \in T : \A y \in T : ~ (<< y, x >> \in R)
  BY <1>1, WFMin
<1>3. SUFFICES ASSUME NEW y \in T PROVE x <= y
  OBVIOUS
<1>4. x \in Nat /\ y \in Nat
  OBVIOUS
<1>5. ~ (y < x)
  <2>1. ASSUME y < x PROVE << y, x >> \in R
    BY <1>4, <2>1 DEF R
  <2> QED BY <1>2, <2>1
<1> QED BY <1>4, <1>5

(* A new file takes a slot that was closed.                                 *)
LEMMA FopenEffect ==
  ASSUME NEW h \in HostType, NEW box \in BOOLEAN, NEW addr \in Addrs,
         NEW mode \in Modes, NEW can \in BOOLEAN
  PROVE  LET r == Fopen(h, box, addr, mode, can)
         IN  /\ r.host \in HostType
             /\ r.left \in {"no", "USAGE", "dotdot", "full"}
             /\ r.left = "full" => \A k \in Handles : IsOpen(h, k)
             /\ \/ r.ret = 0 /\ r.host.files = h.files
                \/ /\ r.ret \in Handles /\ ~IsOpen(h, r.ret)
                   /\ \E f \in OpenFile :
                        /\ f.name = ReadString(addr)
                        /\ r.host.files = [h.files EXCEPT ![r.ret] = f]
<1> DEFINE name == ReadString(addr)
           Free(k) == /\ ~IsOpen(h, k)
                      /\ \A j \in 1 .. k - 1 : IsOpen(h, j)
           n == CHOOSE k \in Handles : Free(k)
           f == [name |-> name, mode |-> mode, pos |-> 0, eof |-> FALSE]
           g == IF mode = "r" THEN h ELSE [h EXCEPT !.data[name] = << >>]
           c == [g EXCEPT !.files[n] = f]
           r == Fopen(h, box, addr, mode, can)
<1>1. name \in AllNames
  BY TextAssumption DEF ReadString, AllNames
<1>2. f \in OpenFile /\ f.name = name
  BY <1>1 DEF OpenFile
<1>3. g \in HostType /\ g.files = h.files
  <2>1. << >> \in Seq(Byte)
    OBVIOUS
  <2> HIDE DEF name
  <2>2. LET t == [h EXCEPT !.data[name] = << >>]
        IN  t \in HostType /\ t.files = h.files
    BY <1>1, <2>1, DataUpdate
  <2> QED BY <2>2
<1>4. \/ r \in {Leave(h, "USAGE"), Leave(h, "dotdot"), Done(h, 0)}
      \/ r = Leave(h, "full") /\ \A k \in Handles : IsOpen(h, k)
      \/ r = Done(c, n) /\ ~ \A k \in Handles : IsOpen(h, k)
  BY Zenon DEF Fopen
<1>5. ASSUME ~ \A k \in Handles : IsOpen(h, k)
      PROVE  n \in Handles /\ ~IsOpen(h, n)
  <2> DEFINE T == {k \in Handles : ~IsOpen(h, k)}
  <2>1. PICK k \in T : \A j \in T : k <= j
    BY <1>5, Least, HandlesAreNumbers
  <2>2. k \in Handles /\ Free(k)
    BY <2>1, HostSlotsAssumption DEF Handles
  <2> HIDE DEF T
  <2>3. n \in Handles /\ Free(n)
    BY <2>2, Zenon
  <2> QED BY <2>3
<1> HIDE DEF name, n, f, g
<1>6. ASSUME ~ \A k \in Handles : IsOpen(h, k)
      PROVE  c \in HostType /\ c.files = [h.files EXCEPT ![n] = f]
  BY <1>2, <1>3, <1>5, <1>6, FileUpdate DEF AllHandles, FileType
<1> HIDE DEF c, r
<1>7. CASE r = Done(c, n) /\ ~ \A k \in Handles : IsOpen(h, k)
  <2>1. r.ret = n /\ r.host = c /\ r.left = "no"
    BY <1>7 DEF Done
  <2> QED BY <1>2, <1>5, <1>6, <1>7, <2>1 DEF name, r
<1>8. CASE r \in {Leave(h, "USAGE"), Leave(h, "dotdot"), Done(h, 0)}
  BY <1>8 DEF Done, Leave, r
<1>9. CASE r = Leave(h, "full") /\ \A k \in Handles : IsOpen(h, k)
  BY <1>9 DEF Leave, r
<1> QED BY <1>4, <1>7, <1>8, <1>9

-----------------------------------------------------------------------------
(* The invariant                                                           *)

(* A standard stream keeps its handle until it is closed.                   *)
StandardStreams == \A s \in StdHandles : handle[s] \in {s, 0}

Inv == TypeOK /\ TablesAgree /\ StandardStreams

LEMMA FilesAreNumbers ==
  /\ Files \subseteq Int /\ Slots \subseteq Nat \ {0}
  /\ StdHandles \cap Slots = {}
  BY FileSlotsAssumption, StdHandlesAssumption DEF Files, Slots

LEMMA FindFreeIsFree == FreeSlots # {} => FindFree \in FreeSlots
<1> SUFFICES ASSUME FreeSlots # {} PROVE FindFree \in FreeSlots
  OBVIOUS
<1>1. PICK s \in FreeSlots : \A t \in FreeSlots : s <= t
  BY Least, FilesAreNumbers DEF FreeSlots
<1> QED BY <1>1, Zenon DEF FindFree

LEMMA InitHolds == Init => Inv
<1> SUFFICES ASSUME Init PROVE Inv
  OBVIOUS
<1> DEFINE F(n) == IF n \in StdHandles
                   THEN [name |-> StdName(n),
                         mode |-> IF n = -1 THEN "r" ELSE "wb",
                         pos |-> 0, eof |-> FALSE]
                   ELSE ClosedFile
<1>1. host.files = [n \in AllHandles |-> F(n)]
      /\ host.data = [f \in AllNames |-> << >>]
      /\ host = [files |-> host.files, data |-> host.data]
  BY DEF Init, InitHost, AllHandles
<1>2. \A n \in StdHandles : F(n) \in OpenFile
  <2> SUFFICES ASSUME NEW n \in StdHandles PROVE F(n) \in OpenFile
    OBVIOUS
  <2>1. StdName(n) \in AllNames
    BY DEF AllNames
  <2> QED BY <2>1 DEF OpenFile, Modes
<1>3. \A n \in Handles : F(n) = ClosedFile
  BY HandlesAreNumbers
<1> HIDE DEF F
<1>4. host \in HostType
  <2>1. \A n \in AllHandles : F(n) \in FileType
    BY <1>2, <1>3 DEF AllHandles, FileType
  <2>2. << >> \in Seq(Byte)
    OBVIOUS
  <2> QED BY <1>1, <2>1, <2>2 DEF HostType, AllHandles
<1>5. \A n \in Handles : ~IsOpen(host, n)
  BY <1>1, <1>3 DEF IsOpen, AllHandles, ClosedFile
<1>6. \A s \in Slots : handle[s] = 0
  BY FilesAreNumbers DEF Init, Files
<1>7. TypeOK
  <2>1. handle \in [Files -> StdHandles \cup 0 .. HostSlots]
    BY HostSlotsAssumption DEF Init
  <2>2. dir \in [Files -> SUBSET {"read", "write"}]
    BY DEF Init
  <2>3. sandbox \in BOOLEAN /\ asked \in [Slots -> Names \cup {"none"}]
    BY FileSlotsAssumption DEF Init
  <2> QED BY <1>4, <2>1, <2>2, <2>3 DEF TypeOK, Init
<1>8. StandardStreams
  BY DEF Init, StandardStreams, Files
<1> QED BY <1>5, <1>6, <1>7, <1>8 DEF Inv, TablesAgree

LEMMA SyscallHolds ==
  ASSUME Inv, NEW r, r.host \in HostType, SameFiles(host, r.host),
         r.left \in {"no"} \cup Reasons, Syscall(r)
  PROVE  Inv'
<1>1. \A n : IsOpen(r.host, n) <=> IsOpen(host, n)
  BY DEF SameFiles, IsOpen, AllHandles
<1>2. TypeOK'
  BY DEF Inv, TypeOK, Syscall, Left, Reasons
<1>3. TablesAgree'
  BY <1>1 DEF Inv, TablesAgree, Syscall
<1> QED BY <1>2, <1>3 DEF Inv, StandardStreams, Syscall

LEMMA FileFcloseHolds ==
  ASSUME Inv, NEW s \in Files, FileFclose(s)
  PROVE  Inv'
<1> DEFINE n == handle[s]
           r == Fileio(host, "fclose", n, "nul")
<1>1. n \in Int /\ host \in HostType
  <2>1. n \in StdHandles \cup 0 .. HostSlots /\ host \in HostType
    BY DEF Inv, TypeOK
  <2> HIDE DEF n
  <2> QED BY <2>1, HandlesAreNumbers
<1>2. /\ r.host \in HostType
      /\ r.left = IF IsOpen(host, n) THEN "no" ELSE "notopen"
      /\ r.host.files = IF IsOpen(host, n) /\ n > 0
                        THEN [host.files EXCEPT ![n] = ClosedFile]
                        ELSE host.files
  BY <1>1, FcloseEffect
<1>3. /\ host' = r.host /\ status' = Left(r)
      /\ handle' = IF r.left = "no" THEN [handle EXCEPT ![s] = 0] ELSE handle
      /\ UNCHANGED << dir, sandbox, asked >>
  BY DEF FileFclose
<1> HIDE DEF r
<1>4. TypeOK'
  BY <1>2, <1>3, HostSlotsAssumption DEF Inv, TypeOK, Left, Reasons
<1>5. StandardStreams'
  BY <1>3, FilesAreNumbers DEF Inv, TypeOK, StandardStreams, Files
<1>6. TablesAgree'
  <2>1. CASE ~IsOpen(host, n)
    BY <1>2, <1>3, <2>1 DEF Inv, TablesAgree, IsOpen
  <2>2. CASE IsOpen(host, n) /\ s \in StdHandles
    <3>1. n < 0
      BY <2>2, HandlesAreNumbers, StdHandlesAssumption
         DEF Inv, StandardStreams, IsOpen, AllHandles
    <3>2. \A t \in Slots : handle'[t] = handle[t]
      BY <1>3, <2>2, FilesAreNumbers DEF Inv, TypeOK
    <3>3. host'.files = host.files
      BY <1>1, <1>2, <1>3, <3>1
    <3> QED BY <3>2, <3>3 DEF Inv, TablesAgree, IsOpen
  <2>3. CASE IsOpen(host, n) /\ s \in Slots
    <3>1. n # 0
      BY <2>3, HandlesAreNumbers DEF IsOpen, AllHandles
    <3>2. n \in Handles /\ \A t \in Slots : handle[t] = n => t = s
      BY <2>3, <3>1 DEF Inv, TablesAgree
    <3>3. \A t \in Slots : handle'[t] = IF t = s THEN 0 ELSE handle[t]
      BY <1>2, <1>3, <2>3 DEF Inv, TypeOK, Files
    <3>4. host'.files = [host.files EXCEPT ![n] = ClosedFile]
      <4>1. n > 0
        <5> HIDE DEF n
        <5> QED BY <3>2, HandlesAreNumbers
      <4> QED BY <1>2, <1>3, <2>3, <4>1
    <3>5. \A m \in Handles : IsOpen(host', m) <=> IsOpen(host, m) /\ m # n
      BY <3>4, <1>1 DEF IsOpen, ClosedFile, HostType
    <3>6. \A t \in Slots : handle'[t] # 0 =>
             /\ handle'[t] \in Handles /\ IsOpen(host', handle'[t])
             /\ \A u \in Slots : handle'[u] = handle'[t] => u = t
      BY <3>2, <3>3, <3>5 DEF Inv, TablesAgree
    <3>7. \A m \in Handles : IsOpen(host', m) => \E t \in Slots : handle'[t] = m
      BY <3>2, <3>3, <3>5, HandlesAreNumbers DEF Inv, TablesAgree
    <3> QED BY <3>6, <3>7 DEF TablesAgree
  <2> QED BY <2>1, <2>2, <2>3 DEF Files
<1> QED BY <1>4, <1>5, <1>6 DEF Inv

LEMMA OpenHolds ==
  ASSUME Inv, NEW addr \in Addrs, NEW mode \in Modes, NEW can \in BOOLEAN,
         Open(addr, mode, can)
  PROVE  Inv'
<1> DEFINE r == Fopen(host, sandbox, addr, mode, can)
           s == FindFree
<1>1. host \in HostType /\ sandbox \in BOOLEAN
  BY DEF Inv, TypeOK
<1>2. /\ r.host \in HostType
      /\ r.left \in {"no", "USAGE", "dotdot", "full"}
      /\ \/ r.ret = 0 /\ r.host.files = host.files
         \/ /\ r.ret \in Handles /\ ~IsOpen(host, r.ret)
            /\ \E f \in OpenFile : /\ f.name = ReadString(addr)
                                   /\ r.host.files = [host.files EXCEPT ![r.ret] = f]
  BY <1>1, FopenEffect
<1>3. /\ host' = r.host /\ status' = Left(r)
      /\ handle' = [handle EXCEPT ![s] = r.ret]
      /\ r.ret # 0 => /\ dir' = [dir EXCEPT ![s] =
                                   IF mode = "r" THEN {"read"} ELSE {"write"}]
                      /\ asked' = [asked EXCEPT ![s] = RamText[addr]]
      /\ r.ret = 0 => UNCHANGED << dir, asked >>
      /\ sandbox' = sandbox
  BY DEF Open
<1>4. s \in Slots /\ s \in Files /\ handle[s] = 0
  BY FindFreeIsFree DEF Open, FreeSlots, Files
<1> HIDE DEF r, s
<1>5. r.ret \in StdHandles \cup 0 .. HostSlots
  BY <1>2, HostSlotsAssumption DEF Handles
<1>6. TypeOK'
  <2>1. handle' \in [Files -> StdHandles \cup 0 .. HostSlots]
    <3>1. handle \in [Files -> StdHandles \cup 0 .. HostSlots]
      BY DEF Inv, TypeOK
    <3> QED BY <1>3, <1>5, <3>1
  <2>4. dir' \in [Files -> SUBSET {"read", "write"}]
    <3>1. dir \in [Files -> SUBSET {"read", "write"}]
      BY DEF Inv, TypeOK
    <3> QED BY <1>3, <3>1
  <2>2. asked' \in [Slots -> Names \cup {"none"}]
    BY <1>3, TextAssumption DEF Inv, TypeOK
  <2>3. status' \in {"RUNNING", "EXIT"} \cup Reasons
    BY <1>2, <1>3 DEF Left, Reasons
  <2> QED BY <1>1, <1>2, <1>3, <2>1, <2>2, <2>3, <2>4 DEF TypeOK
<1>7. StandardStreams'
  BY <1>3, <1>4, FilesAreNumbers DEF Inv, TypeOK, StandardStreams, Files
<1>8. \A t \in Slots : handle'[t] = IF t = s THEN r.ret ELSE handle[t]
  BY <1>3 DEF Inv, TypeOK, Files
<1>9. TablesAgree'
  <2>1. CASE r.ret = 0 /\ r.host.files = host.files
    BY <1>3, <1>4, <1>8, <2>1 DEF Inv, TablesAgree, IsOpen
  <2>2. CASE /\ r.ret \in Handles /\ ~IsOpen(host, r.ret)
             /\ \E f \in OpenFile : r.host.files = [host.files EXCEPT ![r.ret] = f]
    <3> DEFINE n == r.ret
    <3>1. PICK f \in OpenFile : host'.files = [host.files EXCEPT ![n] = f]
      BY <1>3, <2>2
    <3>2. f.mode # "none"
      BY DEF OpenFile, Modes
    <3>3. n \in Handles /\ ~IsOpen(host, n) /\ n # 0
      BY <2>2, HandlesAreNumbers
    <3> HIDE DEF n
    <3>4. \A m \in Handles : IsOpen(host', m) <=> IsOpen(host, m) \/ m = n
      BY <1>1, <3>1, <3>2, <3>3 DEF IsOpen, HostType
    <3>5. \A t \in Slots : handle[t] # n
      BY <3>3 DEF Inv, TablesAgree
    <3>6. \A t \in Slots : handle'[t] = IF t = s THEN n ELSE handle[t]
      BY <1>8 DEF n
    <3>7. \A t \in Slots : handle'[t] # 0 =>
             /\ handle'[t] \in Handles /\ IsOpen(host', handle'[t])
             /\ \A u \in Slots : handle'[u] = handle'[t] => u = t
      BY <3>3, <3>4, <3>5, <3>6 DEF Inv, TablesAgree
    <3>8. \A m \in Handles : IsOpen(host', m) => \E t \in Slots : handle'[t] = m
      <4> SUFFICES ASSUME NEW m \in Handles, IsOpen(host', m)
                   PROVE  \E t \in Slots : handle'[t] = m
        OBVIOUS
      <4>1. CASE m = n
        BY <1>4, <3>6, <4>1
      <4>2. CASE m # n
        <5>1. PICK t \in Slots : handle[t] = m
          BY <3>4, <4>2 DEF Inv, TablesAgree
        <5>2. t # s
          BY <1>4, <5>1, HandlesAreNumbers
        <5> QED BY <3>6, <5>1, <5>2
      <4> QED BY <4>1, <4>2
    <3> QED BY <3>7, <3>8 DEF TablesAgree
  <2> QED BY <1>2, <2>1, <2>2
<1> QED BY <1>6, <1>7, <1>9 DEF Inv

(* What the calls that neither open nor close do.                           *)
Plain == \E r : /\ r.host \in HostType /\ SameFiles(host, r.host)
                /\ r.left \in {"no", "notopen", "whence"} /\ Syscall(r)

LEMMA SeekIsPlain ==
  ASSUME Inv, NEW n, n \in StdHandles \cup 0 .. HostSlots,
         NEW delta \in {-1, 0}, NEW whence \in 0 .. 3, SeekHandle(n, delta, whence)
  PROVE  Plain
<1>1. n \in Nat
  BY HandlesAreNumbers DEF SeekHandle
<1>2. host \in HostType /\ delta \in Int
  BY DEF Inv, TypeOK
<1> QED BY <1>1, <1>2, SeekKeeps DEF SeekHandle, Plain

LEMMA FunctionIsPlain ==
  ASSUME Inv, NEW f \in Functions \ {"fclose"}, NEW n, NEW b \in Byte,
         Syscall(Fileio(host, f, n, b))
  PROVE  Plain
<1>1. host \in HostType
  BY DEF Inv, TypeOK
<1> QED BY <1>1, FileioKeeps DEF Plain

(* What a step of the program comes to: the calls by handle and those by    *)
(* FILE pointer, also by host_fseek and fseek.                              *)
SomeFileio == \E f \in Functions \ {"fclose"}, n \in Numbers, b \in Byte :
                 /\ b # "nul" \/ f = "fgetc"
                 /\ Syscall(Fileio(host, f, n, b))

SomeSeek == \E n \in Numbers, delta \in {-1, 0}, whence \in 0 .. 3 :
              SeekHandle(n, delta, whence)

LEMMA Calls ==
  ASSUME Inv, Next
  PROVE  /\ status = "RUNNING"
         /\ \/ \E addr \in Addrs, mode \in Modes, can \in BOOLEAN : Open(addr, mode, can)
            \/ \E s \in Files : FileFclose(s)
            \/ SomeFileio
            \/ SomeSeek
            \/ Exit
<1>1. ASSUME NEW s \in Files, FcloseFile(s)
      PROVE  status = "RUNNING" /\ FileFclose(s)
  BY <1>1 DEF FcloseFile
<1>2. ASSUME NEW n \in Numbers, FcloseHandle(n)
      PROVE  status = "RUNNING" /\ \E s \in Files : FileFclose(s)
  BY <1>2 DEF FcloseHandle
<1>3. \A s \in Files : handle[s] \in Numbers
  BY DEF Inv, TypeOK, Numbers
<1>4. "nul" \in Byte
  BY DEF Byte
<1>5. ASSUME NEW s \in Files, NEW b \in Byte \ {"nul"}, Put(s, b)
      PROVE  status = "RUNNING" /\ SomeFileio
  <2>1. "fputc" \in Functions \ {"fclose"}
    BY DEF Functions
  <2> QED BY <1>3, <1>5, <2>1 DEF Put, SomeFileio
<1>6. ASSUME NEW s \in Files, Get(s)
      PROVE  status = "RUNNING" /\ SomeFileio
  <2>1. "fgetc" \in Functions \ {"fclose"}
    BY DEF Functions
  <2> QED BY <1>3, <1>4, <1>6, <2>1 DEF Get, SomeFileio
<1>7. ASSUME NEW f \in Functions, NEW s \in Files, NEW b \in Byte \ {"nul"},
             OnFile(f, s, b)
      PROVE  status = "RUNNING" /\ SomeFileio
  <2>1. f # "fclose"
    BY <1>7 DEF OnFile
  <2> QED BY <1>3, <1>7, <2>1 DEF OnFile, SomeFileio
<1>8. ASSUME NEW f \in Functions, NEW n \in Numbers, NEW b \in Byte \ {"nul"},
             OnHandle(f, n, b)
      PROVE  status = "RUNNING" /\ SomeFileio
  BY <1>8 DEF OnHandle, SomeFileio
<1>9. ASSUME NEW n \in Numbers, NEW delta \in {-1, 0}, NEW whence \in 0 .. 3,
             SeekHandle(n, delta, whence)
      PROVE  status = "RUNNING" /\ SomeSeek
  <2>1. status = "RUNNING"
    BY <1>9 DEF SeekHandle
  <2> QED BY <1>9, <2>1 DEF SomeSeek
<1>10. ASSUME NEW s \in Files, NEW delta \in {-1, 0}, NEW whence \in 0 .. 3,
              SeekFile(s, delta, whence)
       PROVE  status = "RUNNING" /\ SomeSeek
  BY <1>3, <1>9, <1>10 DEF SeekFile
<1>11. ASSUME NEW addr \in Addrs, NEW mode \in Modes, NEW can \in BOOLEAN,
              Open(addr, mode, can)
       PROVE  status = "RUNNING"
  BY <1>11 DEF Open
<1>12. Exit => status = "RUNNING"
  BY DEF Exit
<1> QED BY <1>1, <1>2, <1>5, <1>6, <1>7, <1>8, <1>9, <1>10, <1>11, <1>12, Zenon
        DEF Next

LEMMA Steps ==
  ASSUME Inv, Next
  PROVE  \/ \E addr \in Addrs, mode \in Modes, can \in BOOLEAN : Open(addr, mode, can)
         \/ \E s \in Files : FileFclose(s)
         \/ Plain
         \/ Exit
<1>1. SomeFileio => Plain
  BY FunctionIsPlain DEF SomeFileio
<1>2. SomeSeek => Plain
  BY SeekIsPlain DEF SomeSeek, Numbers
<1> QED BY <1>1, <1>2, Calls

LEMMA NextHolds == Inv /\ [Next]_vars => Inv'
<1> SUFFICES ASSUME Inv, [Next]_vars PROVE Inv'
  OBVIOUS
<1>1. CASE UNCHANGED vars
  BY <1>1 DEF vars, Inv, TypeOK, TablesAgree, StandardStreams
<1>2. CASE Plain
  BY <1>2, SyscallHolds DEF Plain, Reasons
<1>3. CASE Exit
  BY <1>3 DEF Exit, Inv, TypeOK, TablesAgree, StandardStreams
<1> QED BY <1>1, <1>2, <1>3, Steps, OpenHolds, FileFcloseHolds

LEMMA InvHolds == Spec => []Inv
  BY InitHolds, NextHolds, PTL DEF Spec

-----------------------------------------------------------------------------
(* The theorems                                                            *)

(* Both tables stay well-formed through any sequence of calls.              *)
THEOREM TypeCorrect == Spec => []TypeOK
<1>1. Inv => TypeOK
  BY DEF Inv
<1> QED BY <1>1, InvHolds, PTL

(* fileio.c holds the handle of each open file once, and no other handle.   *)
THEOREM TablesAlwaysAgree == Spec => []TablesAgree
<1>1. Inv => TablesAgree
  BY DEF Inv
<1> QED BY <1>1, InvHolds, PTL

(* With a free FILE, and no more FILEs than slots, some slot is closed.     *)
LEMMA Pigeonhole ==
  ASSUME Inv, FreeSlots # {}, FileSlots <= HostSlots
  PROVE  ~ \A k \in Handles : IsOpen(host, k)
<1> SUFFICES ASSUME \A k \in Handles : IsOpen(host, k) PROVE FALSE
  OBVIOUS
<1>1. PICK s \in Slots : handle[s] = 0
  BY DEF FreeSlots
<1> DEFINE T == Slots \ {s}
           holder == [n \in Handles |-> CHOOSE t \in Slots : handle[t] = n]
<1>2. \A n \in Handles : holder[n] \in Slots /\ handle[holder[n]] = n
  BY DEF Inv, TablesAgree
<1>3. \A n \in Handles : holder[n] \in T
  BY <1>1, <1>2, HandlesAreNumbers
<1>4. holder \in Injection(Handles, T)
  <2>1. holder \in [Handles -> T]
    BY <1>3
  <2> HIDE DEF holder
  <2> QED BY <1>2, <2>1 DEF Injection, IsInjective
<1>5. /\ IsFiniteSet(Slots) /\ Cardinality(Slots) = FileSlots
      /\ IsFiniteSet(Handles) /\ Cardinality(Handles) = HostSlots
  BY FS_Interval, FileSlotsAssumption, HostSlotsAssumption DEF Slots, Handles
<1>6. IsFiniteSet(T) /\ Cardinality(T) = FileSlots - 1
  BY <1>5, FS_RemoveElement
<1> HIDE DEF T, holder
<1>7. Cardinality(Handles) <= Cardinality(T)
  BY <1>4, <1>6, FS_Injection
<1> QED BY <1>5, <1>6, <1>7, FileSlotsAssumption, HostSlotsAssumption

(* host_fopen is never called with all of its slots in use.                 *)
THEOREM NeverOutOfHandles ==
  ASSUME FileSlots <= HostSlots
  PROVE  Spec => []HostNeverRunsOut
<1>1. Init => HostNeverRunsOut
  BY DEF Init, HostNeverRunsOut
<1>2. ASSUME Inv, HostNeverRunsOut, [Next]_vars
      PROVE  HostNeverRunsOut'
  <2>1. CASE UNCHANGED vars
    BY <1>2, <2>1 DEF vars, HostNeverRunsOut
  <2>2. CASE Plain
    BY <2>2 DEF Plain, Syscall, Left, HostNeverRunsOut
  <2>3. CASE Exit
    BY <2>3 DEF Exit, HostNeverRunsOut
  <2>4. ASSUME NEW s \in Files, FileFclose(s)
        PROVE  HostNeverRunsOut'
    <3> DEFINE r == Fileio(host, "fclose", handle[s], "nul")
    <3>1. handle[s] \in Int /\ host \in HostType
      <4>1. handle[s] \in StdHandles \cup 0 .. HostSlots /\ host \in HostType
        BY <1>2 DEF Inv, TypeOK
      <4> QED BY <4>1, HandlesAreNumbers
    <3>2. r.left = IF IsOpen(host, handle[s]) THEN "no" ELSE "notopen"
      BY <3>1, FcloseEffect
    <3>3. status' = Left(r)
      BY <2>4 DEF FileFclose
    <3> HIDE DEF r
    <3> QED BY <3>2, <3>3 DEF Left, HostNeverRunsOut
  <2>5. ASSUME NEW addr \in Addrs, NEW mode \in Modes, NEW can \in BOOLEAN,
               Open(addr, mode, can)
        PROVE  HostNeverRunsOut'
    <3> DEFINE r == Fopen(host, sandbox, addr, mode, can)
    <3>1. ~ \A k \in Handles : IsOpen(host, k)
      BY <1>2, <2>5, Pigeonhole DEF Open
    <3>2. host \in HostType /\ sandbox \in BOOLEAN
      BY <1>2 DEF Inv, TypeOK
    <3>3. r.left \in {"no", "USAGE", "dotdot"}
      BY <3>1, <3>2, FopenEffect
    <3>4. status' = Left(r)
      BY <2>5 DEF Open
    <3> HIDE DEF r
    <3> QED BY <3>3, <3>4 DEF Left, HostNeverRunsOut
  <2> QED BY <1>2, <2>1, <2>2, <2>3, <2>4, <2>5, Steps
<1> QED BY <1>1, <1>2, InvHolds, PTL DEF Spec

(* If all names are at addresses where RAM shows, a FILE is the file that    *)
(* it was opened for.                                                       *)
THEOREM FilesAreAsAsked ==
  ASSUME PmOffset # 0, \A a \in Addrs : a >= PmOffset
  PROVE  Spec => []FileOfTheName
<1>1. Init => FileOfTheName
  <2>1. Init => \A s \in Slots : handle[s] = 0
    BY FilesAreNumbers DEF Init, Files
  <2> QED BY <2>1 DEF FileOfTheName
<1>2. ASSUME Inv, FileOfTheName, [Next]_vars
      PROVE  FileOfTheName'
  <2>1. CASE UNCHANGED vars
    BY <1>2, <2>1 DEF vars, FileOfTheName
  <2>2. CASE Plain
    <3>1. \A s \in Slots : handle[s] # 0 => handle[s] \in AllHandles
      BY <1>2 DEF Inv, TablesAgree, AllHandles
    <3> QED BY <1>2, <2>2, <3>1 DEF Plain, Syscall, SameFiles, FileOfTheName
  <2>3. CASE Exit
    BY <1>2, <2>3 DEF Exit, FileOfTheName
  <2>4. ASSUME NEW s \in Files, FileFclose(s)
        PROVE  FileOfTheName'
    <3> DEFINE n == handle[s]
               r == Fileio(host, "fclose", n, "nul")
    <3>1. n \in Int /\ host \in HostType
      <4>1. n \in StdHandles \cup 0 .. HostSlots /\ host \in HostType
        BY <1>2 DEF Inv, TypeOK
      <4> HIDE DEF n
      <4> QED BY <4>1, HandlesAreNumbers
    <3>2. /\ r.left = IF IsOpen(host, n) THEN "no" ELSE "notopen"
          /\ r.host.files = IF IsOpen(host, n) /\ n > 0
                            THEN [host.files EXCEPT ![n] = ClosedFile]
                            ELSE host.files
      BY <3>1, FcloseEffect
    <3>3. /\ host' = r.host /\ asked' = asked
          /\ handle' = IF r.left = "no" THEN [handle EXCEPT ![s] = 0] ELSE handle
      BY <2>4 DEF FileFclose
    <3> HIDE DEF r
    <3>4. CASE ~IsOpen(host, n)
      BY <1>2, <3>2, <3>3, <3>4 DEF FileOfTheName
    <3>5. CASE IsOpen(host, n)
      <4> SUFFICES ASSUME NEW t \in Slots, handle'[t] # 0
                   PROVE  host'.files[handle'[t]].name = asked'[t]
        BY DEF FileOfTheName
      <4>1. handle'[t] = handle[t] /\ t # s
        BY <1>2, <3>2, <3>3, <3>5 DEF Inv, TypeOK, Files
      <4>2. handle[t] # n
        <5>1. CASE s \in Slots
          BY <1>2, <4>1, <5>1 DEF Inv, TablesAgree
        <5>2. CASE s \in StdHandles
          <6>1. n \in StdHandles \cup {0}
            BY <1>2, <5>2 DEF Inv, StandardStreams
          <6>2. handle[t] \in Handles
            BY <1>2, <4>1 DEF Inv, TablesAgree
          <6> QED BY <6>1, <6>2, HandlesAreNumbers
        <5> QED BY <5>1, <5>2 DEF Files
      <4>3. host'.files[handle[t]] = host.files[handle[t]]
        <5>1. host'.files \in {host.files, [host.files EXCEPT ![n] = ClosedFile]}
          BY <3>2, <3>3
        <5>2. handle[t] \in AllHandles
          BY <1>2, <4>1 DEF Inv, TablesAgree, AllHandles
        <5>3. host.files \in [AllHandles -> FileType]
          BY <3>1 DEF HostType, AllHandles
        <5> HIDE DEF n
        <5> QED BY <4>2, <5>1, <5>2, <5>3
      <4> QED BY <1>2, <3>3, <4>1, <4>3 DEF FileOfTheName
    <3> QED BY <3>4, <3>5
  <2>5. ASSUME NEW addr \in Addrs, NEW mode \in Modes, NEW can \in BOOLEAN,
               Open(addr, mode, can)
        PROVE  FileOfTheName'
    <3> DEFINE r == Fopen(host, sandbox, addr, mode, can)
               s == FindFree
    <3>1. host \in HostType /\ sandbox \in BOOLEAN
      BY <1>2 DEF Inv, TypeOK
    <3>2. ReadString(addr) = RamText[addr]
      BY DEF ReadString
    <3>3. \/ r.ret = 0 /\ r.host.files = host.files
          \/ /\ r.ret \in Handles /\ ~IsOpen(host, r.ret)
             /\ \E f \in OpenFile : /\ f.name = RamText[addr]
                                    /\ r.host.files = [host.files EXCEPT ![r.ret] = f]
      <4>1. \/ r.ret = 0 /\ r.host.files = host.files
            \/ /\ r.ret \in Handles /\ ~IsOpen(host, r.ret)
               /\ \E f \in OpenFile : /\ f.name = ReadString(addr)
                                      /\ r.host.files = [host.files EXCEPT ![r.ret] = f]
        BY <3>1, FopenEffect
      <4> HIDE DEF r
      <4> QED BY <3>2, <4>1
    <3>4. /\ host' = r.host
          /\ handle' = [handle EXCEPT ![s] = r.ret]
          /\ r.ret # 0 => asked' = [asked EXCEPT ![s] = RamText[addr]]
          /\ r.ret = 0 => asked' = asked
      BY <2>5 DEF Open
    <3>5. s \in Slots /\ handle[s] = 0
      BY <2>5, FindFreeIsFree DEF Open, FreeSlots
    <3> HIDE DEF r, s
    <3>6. \A t \in Slots : handle'[t] = IF t = s THEN r.ret ELSE handle[t]
      BY <1>2, <3>4 DEF Inv, TypeOK, Files
    <3>7. CASE r.ret = 0 /\ r.host.files = host.files
      BY <1>2, <3>4, <3>5, <3>6, <3>7 DEF FileOfTheName
    <3>8. CASE /\ r.ret \in Handles /\ ~IsOpen(host, r.ret)
               /\ \E f \in OpenFile : /\ f.name = RamText[addr]
                                      /\ r.host.files = [host.files EXCEPT ![r.ret] = f]
      <4> DEFINE n == r.ret
      <4>1. PICK f \in OpenFile : /\ f.name = RamText[addr]
                                  /\ host'.files = [host.files EXCEPT ![n] = f]
        BY <3>4, <3>8
      <4>2. n \in Handles /\ n # 0 /\ ~IsOpen(host, n)
        BY <3>8, HandlesAreNumbers
      <4>3. asked' = [asked EXCEPT ![s] = RamText[addr]]
        BY <3>4, <4>2
      <4>4. \A t \in Slots : handle'[t] = IF t = s THEN n ELSE handle[t]
        BY <3>6
      <4> HIDE DEF n
      <4> SUFFICES ASSUME NEW t \in Slots, handle'[t] # 0
                   PROVE  host'.files[handle'[t]].name = asked'[t]
        BY DEF FileOfTheName
      <4>5. CASE t = s
        <5>1. asked'[t] = RamText[addr]
          BY <1>2, <4>3, <4>5 DEF Inv, TypeOK
        <5>2. host'.files[n] = f
          BY <3>1, <4>1, <4>2 DEF HostType
        <5> QED BY <4>1, <4>4, <4>5, <5>1, <5>2
      <4>6. CASE t # s
        <5>1. handle'[t] = handle[t] /\ handle[t] # n
          BY <1>2, <4>2, <4>4, <4>6 DEF Inv, TablesAgree
        <5>2. asked'[t] = asked[t]
          BY <1>2, <4>3, <4>6 DEF Inv, TypeOK
        <5>3. host'.files[handle[t]] = host.files[handle[t]]
          BY <3>1, <4>1, <5>1 DEF HostType
        <5> QED BY <1>2, <5>1, <5>2, <5>3 DEF FileOfTheName
      <4> QED BY <4>5, <4>6
    <3> QED BY <3>3, <3>7, <3>8
  <2> QED BY <1>2, <2>1, <2>2, <2>3, <2>4, <2>5, Steps
<1> QED BY <1>1, <1>2, InvHolds, PTL DEF Spec

-----------------------------------------------------------------------------
(* The refinement of Stdio                                                 *)

(* The streams go on when their FILEs are closed.                           *)
StreamsOpen == \A n \in StdHandles : IsOpen(host, n)

LEMMA StreamsStayOpen == Spec => []StreamsOpen
<1>1. Init => StreamsOpen
  <2> SUFFICES ASSUME Init, NEW n \in StdHandles PROVE IsOpen(host, n)
    BY DEF StreamsOpen
  <2>1. host.files[n].mode \in {"r", "wb"}
    BY DEF Init, InitHost
  <2> QED BY <2>1 DEF IsOpen
<1>2. ASSUME Inv, StreamsOpen, [Next]_vars
      PROVE  StreamsOpen'
  <2>1. CASE UNCHANGED vars \/ Exit
    BY <1>2, <2>1 DEF vars, Exit, StreamsOpen
  <2>2. CASE Plain
    BY <1>2, <2>2 DEF Plain, Syscall, SameFiles, StreamsOpen, IsOpen, AllHandles
  <2>3. ASSUME NEW s \in Files, FileFclose(s)
        PROVE  StreamsOpen'
    <3> DEFINE k == handle[s]
               r == Fileio(host, "fclose", k, "nul")
    <3>1. k \in Int /\ host \in HostType
      <4>1. k \in StdHandles \cup 0 .. HostSlots /\ host \in HostType
        BY <1>2 DEF Inv, TypeOK
      <4> HIDE DEF k
      <4> QED BY <4>1, HandlesAreNumbers
    <3>2. r.host.files = IF IsOpen(host, k) /\ k > 0
                         THEN [host.files EXCEPT ![k] = ClosedFile]
                         ELSE host.files
      BY <3>1, FcloseEffect
    <3>3. host' = r.host
      BY <2>3 DEF FileFclose
    <3> HIDE DEF r, k
    <3>4. \A n \in StdHandles : host'.files[n] = host.files[n]
      BY <3>1, <3>2, <3>3, HandlesAreNumbers DEF HostType
    <3> QED BY <1>2, <3>4 DEF StreamsOpen, IsOpen
  <2>4. ASSUME NEW addr \in Addrs, NEW mode \in Modes, NEW can \in BOOLEAN,
               Open(addr, mode, can)
        PROVE  StreamsOpen'
    <3> DEFINE r == Fopen(host, sandbox, addr, mode, can)
    <3>1. host \in HostType /\ sandbox \in BOOLEAN
      BY <1>2 DEF Inv, TypeOK
    <3>2. \/ r.host.files = host.files
          \/ /\ r.ret \in Handles
             /\ \E f \in OpenFile : r.host.files = [host.files EXCEPT ![r.ret] = f]
      BY <3>1, FopenEffect
    <3>3. host' = r.host
      BY <2>4 DEF Open
    <3> HIDE DEF r
    <3>4. \A n \in StdHandles : host'.files[n] = host.files[n]
      BY <3>1, <3>2, <3>3, HandlesAreNumbers DEF HostType
    <3> QED BY <1>2, <3>4 DEF StreamsOpen, IsOpen
  <2> QED BY <1>2, <2>1, <2>2, <2>3, <2>4, Steps
<1> QED BY <1>1, <1>2, InvHolds, PTL DEF Spec

(* Stdio's calls are the host's, on another table.                          *)
LEMMA SameCalls ==
  /\ S!Slots = Slots /\ S!Files = Files
  /\ \A h, n : /\ S!ReadByte(h, n) = ReadByte(h, n)
               /\ S!Clearerr(h, n) = Clearerr(h, n)
               /\ S!Fclose(h, n) = Fclose(h, n)
  /\ \A h, n, b : /\ S!Fputc(h, n, b) = Fputc(h, n, b)
                  /\ S!WriteByte(h, n, b) = WriteByte(h, n, b)
  /\ \A h, n, d, w : S!Fseek(h, n, d, w) = Fseek(h, n, d, w)
<1>1. S!Slots = Slots /\ S!Files = Files
  BY DEF S!Slots, S!Files, Slots, Files
<1>2. \A h, n : S!ReadByte(h, n) = ReadByte(h, n)
  BY Zenon DEF S!ReadByte, ReadByte, S!Done, Done, S!Advance, Advance
<1>3. \A h, n : S!Clearerr(h, n) = Clearerr(h, n)
  BY Zenon DEF S!Clearerr, Clearerr, S!Done, Done
<1>4. \A h, n : S!Fclose(h, n) = Fclose(h, n)
  BY Zenon DEF S!Fclose, Fclose, S!Done, Done, S!ClosedFile, ClosedFile
<1>5. \A h, n, b : S!WriteByte(h, n, b) = WriteByte(h, n, b)
  <2>1. \A t, p, b : S!Overwrite(t, p, b) = Overwrite(t, p, b)
    BY DEF S!Overwrite, Overwrite
  <2>2. \A h, n : S!Advance(h, n) = Advance(h, n)
    BY DEF S!Advance, Advance
  <2> QED BY <2>1, <2>2, ZenonT(40) DEF S!WriteByte, WriteByte, S!Done, Done
<1>6. \A h, n, b : S!Fputc(h, n, b) = Fputc(h, n, b)
  BY <1>5, Zenon DEF S!Fputc, Fputc, S!Done, Done, S!Drops, Drops
<1>7. \A h, n, d, w : S!Fseek(h, n, d, w) = Fseek(h, n, d, w)
  BY DEF S!Fseek, Fseek, S!Done, Done, S!Leave, Leave, S!Clearerr, Clearerr
<1> QED BY <1>1, <1>2, <1>3, <1>4, <1>5, <1>6, <1>7

(* The file that stands behind a FILE.                                      *)
Behind(s) == IF s \in StdHandles THEN s ELSE handle[s]

LEMMA OwnersOfHandles ==
  ASSUME Inv, NEW k, IsOpen(host, k)
  PROVE  \E s \in Files : /\ Behind(s) = k
                          /\ \A t \in Files : Behind(t) = k => t = s
<1>1. CASE k \in StdHandles
  <2>1. \A t \in Slots : handle[t] # k
    BY <1>1, HandlesAreNumbers DEF Inv, TablesAgree
  <2> QED BY <1>1, <2>1 DEF Behind, Files
<1>2. CASE k \in Handles
  <2>1. PICK s \in Slots : handle[s] = k
    BY <1>2 DEF Inv, TablesAgree
  <2>2. k # 0 /\ k \notin StdHandles
    BY <1>2, HandlesAreNumbers
  <2>3. \A t \in Slots : handle[t] = k => t = s
    BY <2>1, <2>2 DEF Inv, TablesAgree
  <2> QED BY <2>1, <2>2, <2>3, FilesAreNumbers DEF Behind, Files
<1> QED BY <1>1, <1>2 DEF IsOpen

Owns(s, k) == /\ s \in Files /\ Behind(s) = k /\ IsOpen(host, k)
              /\ \A t \in Files : Behind(t) = k => t = s

LEMMA OwnersAreOpen ==
  ASSUME Inv, NEW s, NEW k, Owns(s, k)
  PROVE  /\ S!Open(s) /\ Table.files[s] = host.files[k]
         /\ s > 0 <=> k > 0
         /\ s \in StdHandles <=> s \notin Slots
<1>1. Table.files[s] = host.files[k]
  <2>1. s \in Slots => handle[s] # 0
    BY HandlesAreNumbers, FilesAreNumbers DEF Owns, Behind, IsOpen, AllHandles
  <2> QED BY <2>1, FilesAreNumbers DEF Table, TableOf, Owns, Behind, Files
<1>2. S!Open(s)
  BY <1>1, SameCalls DEF S!Open, Owns, IsOpen, Files
<1>3. s \in StdHandles <=> s \notin Slots
  BY FilesAreNumbers DEF Owns, Files
<1>4. CASE s \in StdHandles
  BY <1>2, <1>3, <1>4, <1>1, HandlesAreNumbers DEF Owns, Behind
<1>5. CASE s \in Slots
  <2>1. handle[s] \in Handles
    BY <1>3, <1>5, HandlesAreNumbers DEF Inv, TablesAgree, Owns, Behind, IsOpen, AllHandles
  <2>2. s > 0
    BY <1>5, FileSlotsAssumption DEF Slots
  <2> QED BY <1>1, <1>2, <1>3, <1>5, <2>1, <2>2, HandlesAreNumbers DEF Owns, Behind
<1> QED BY <1>3, <1>1, <1>2, <1>4, <1>5

(* A change of the file behind s is the change of s; the disk is the disk.  *)
LEMMA FileLift ==
  ASSUME Inv, NEW s, NEW k, Owns(s, k), NEW g
  PROVE  TableOf([host EXCEPT !.files[k] = g], handle) = [Table EXCEPT !.files[s] = g]
<1> DEFINE h == [host EXCEPT !.files[k] = g]
           F(f) == [t \in Files |-> IF t \in StdHandles THEN f[t]
                                    ELSE IF handle[t] = 0 THEN ClosedFile
                                    ELSE f[handle[t]]]
<1>1. k \in AllHandles /\ host.files \in [AllHandles -> FileType]
  BY DEF Owns, IsOpen, AllHandles, Inv, TypeOK, HostType
<1>2. h.files = [host.files EXCEPT ![k] = g] /\ h.data = host.data
  BY DEF Inv, TypeOK, HostType
<1>3. \A t \in Files : (t \in StdHandles \/ handle[t] # 0) => Behind(t) \in AllHandles
  BY DEF Behind, Files, AllHandles, Inv, TablesAgree
<1>4. s \in Slots => handle[s] # 0
  BY HandlesAreNumbers, FilesAreNumbers DEF Owns, Behind, IsOpen, AllHandles
<1> HIDE DEF h
<1>5. F(h.files) = [F(host.files) EXCEPT ![s] = g]
  <2> SUFFICES ASSUME NEW t \in Files
               PROVE  F(h.files)[t] = IF t = s THEN g ELSE F(host.files)[t]
    BY DEF Owns
  <2>1. CASE t = s
    BY <1>1, <1>2, <1>4, <2>1 DEF Owns, Behind, Files
  <2>2. CASE t # s
    <3>1. Behind(t) # k
      BY <2>2 DEF Owns
    <3> QED BY <1>1, <1>2, <1>3, <2>2, <3>1 DEF Behind
  <2> QED BY <2>1, <2>2
<1>6. TableOf(h, handle) = [files |-> F(h.files), data |-> h.data]
      /\ Table = [files |-> F(host.files), data |-> host.data]
  BY DEF TableOf, Table
<1> HIDE DEF F
<1> QED BY <1>2, <1>5, <1>6 DEF h

LEMMA DataLift ==
  ASSUME NEW h \in HostType, NEW f, NEW d
  PROVE  TableOf([h EXCEPT !.data[f] = d], handle)
           = [TableOf(h, handle) EXCEPT !.data[f] = d]
<1> DEFINE r == [h EXCEPT !.data[f] = d]
           F(g) == [t \in Files |-> IF t \in StdHandles THEN g[t]
                                    ELSE IF handle[t] = 0 THEN ClosedFile
                                    ELSE g[handle[t]]]
<1>1. r.files = h.files /\ r.data = [h.data EXCEPT ![f] = d]
  BY DEF HostType
<1> HIDE DEF r
<1>2. TableOf(r, handle) = [files |-> F(r.files), data |-> r.data]
      /\ TableOf(h, handle) = [files |-> F(h.files), data |-> h.data]
  BY DEF TableOf
<1> HIDE DEF F
<1> QED BY <1>1, <1>2 DEF r

(* A call on the file behind s is the call on s.                            *)
Same(a, r) == a.host = TableOf(r.host, handle) /\ a.left = r.left

LEMMA NothingLift == Same(Done(Table, 0), Done(host, 0))
  BY DEF Same, Done, Table

LEMMA TableShape ==
  ASSUME NEW s, NEW g
  PROVE  /\ Table.data = host.data
         /\ [Table EXCEPT !.files[s].pos = g]
              = [Table EXCEPT !.files[s] = [Table.files[s] EXCEPT !.pos = g]]
         /\ [Table EXCEPT !.files[s].eof = g]
              = [Table EXCEPT !.files[s] = [Table.files[s] EXCEPT !.eof = g]]
  BY DEF Table, TableOf

LEMMA HostShape ==
  ASSUME Inv, NEW k, NEW g
  PROVE  /\ [host EXCEPT !.files[k].pos = g]
              = [host EXCEPT !.files[k] = [host.files[k] EXCEPT !.pos = g]]
         /\ [host EXCEPT !.files[k].eof = g]
              = [host EXCEPT !.files[k] = [host.files[k] EXCEPT !.eof = g]]
  BY DEF Inv, TypeOK, HostType

LEMMA AdvanceLift ==
  ASSUME Inv, NEW s, NEW k, Owns(s, k)
  PROVE  /\ Advance(Table, s) = TableOf(Advance(host, k), handle)
         /\ Advance(host, k) \in HostType
<1> DEFINE f == host.files[k]
           g == [f EXCEPT !.pos = @ + 1]
<1>1. Table.files[s] = f
  BY OwnersAreOpen
<1>2. Advance(Table, s) = [Table EXCEPT !.files[s] = g]
      /\ Advance(host, k) = [host EXCEPT !.files[k] = g]
  BY <1>1, TableShape, HostShape DEF Advance
<1>3. host \in HostType /\ IsOpen(host, k)
  BY DEF Inv, TypeOK, Owns
<1>4. f \in OpenFile
  BY <1>3, OpenFiles
<1>5. g \in OpenFile /\ g.mode = f.mode /\ g.name = f.name
  BY <1>4 DEF OpenFile
<1> HIDE DEF g
<1>6. [host EXCEPT !.files[k] = g] \in HostType
  BY <1>3, <1>5, Moved
<1> QED BY <1>2, <1>6, FileLift

LEMMA WriteByteLift ==
  ASSUME Inv, NEW s, NEW k, Owns(s, k), NEW b
  PROVE  Same(WriteByte(Table, s, b), WriteByte(host, k, b))
<1> DEFINE f == host.files[k]
           a == Advance(host, k)
           d == Overwrite(a.data[f.name], f.pos, b)
<1>1. Table.files[s] = f
  BY OwnersAreOpen
<1>2. a \in HostType /\ Advance(Table, s) = TableOf(a, handle)
  BY AdvanceLift
<1>3. TableOf(a, handle).data = a.data
  BY DEF TableOf
<1>4. CASE f.mode \in {"w", "wb"} /\ f.pos < MaxLen
  <2>1. WriteByte(host, k, b) = Done([a EXCEPT !.data[f.name] = d], 0)
    BY <1>4 DEF WriteByte
  <2>2. WriteByte(Table, s, b)
          = Done([TableOf(a, handle) EXCEPT !.data[f.name] = d], 0)
    BY <1>1, <1>2, <1>3, <1>4 DEF WriteByte
  <2> DEFINE w == [a EXCEPT !.data[f.name] = d]
  <2>3. TableOf(w, handle) = [TableOf(a, handle) EXCEPT !.data[f.name] = d]
    <3> DEFINE name == f.name
    <3>1. TableOf([a EXCEPT !.data[name] = d], handle)
            = [TableOf(a, handle) EXCEPT !.data[name] = d]
      <4> HIDE DEF a, d, name
      <4> QED BY <1>2, DataLift
    <3> QED BY <3>1, Zenon
  <2>4. WriteByte(Table, s, b) = Done(TableOf(w, handle), 0)
    BY <2>2, <2>3, Zenon
  <2>5. WriteByte(host, k, b) = Done(w, 0)
    BY <2>1
  <2> HIDE DEF w
  <2> QED BY <2>4, <2>5 DEF Same, Done
<1>5. CASE ~(f.mode \in {"w", "wb"} /\ f.pos < MaxLen)
  BY <1>1, <1>5, NothingLift DEF WriteByte
<1> QED BY <1>4, <1>5

LEMMA FputcLift ==
  ASSUME Inv, NEW s, NEW k, Owns(s, k), NEW b
  PROVE  Same(Fputc(Table, s, b), Fputc(host, k, b))
<1>1. Table.files[s] = host.files[k]
  BY OwnersAreOpen
<1> QED BY <1>1, WriteByteLift, NothingLift DEF Fputc, Drops

LEMMA EofLift ==
  ASSUME Inv, NEW s, NEW k, Owns(s, k)
  PROVE  /\ Same(Done([Table EXCEPT !.files[s].eof = TRUE], 0),
                 Done([host EXCEPT !.files[k].eof = TRUE], 0))
         /\ Same(Done([Table EXCEPT !.files[s].eof = FALSE], 0),
                 Done([host EXCEPT !.files[k].eof = FALSE], 0))
<1>1. Table.files[s] = host.files[k]
  BY OwnersAreOpen
<1>2. ASSUME NEW e
      PROVE  Same(Done([Table EXCEPT !.files[s].eof = e], 0),
                  Done([host EXCEPT !.files[k].eof = e], 0))
  <2> DEFINE g == [host.files[k] EXCEPT !.eof = e]
  <2>1. [host EXCEPT !.files[k].eof = e] = [host EXCEPT !.files[k] = g]
        /\ [Table EXCEPT !.files[s].eof = e] = [Table EXCEPT !.files[s] = g]
    BY <1>1, TableShape, HostShape
  <2>2. [Table EXCEPT !.files[s] = g] = TableOf([host EXCEPT !.files[k] = g], handle)
    BY FileLift
  <2> QED BY <2>1, <2>2 DEF Same, Done
<1> QED BY <1>2, Zenon

LEMMA ReadByteLift ==
  ASSUME Inv, NEW s, NEW k, Owns(s, k)
  PROVE  Same(ReadByte(Table, s), ReadByte(host, k))
<1> DEFINE f == host.files[k]
<1>1. Table.files[s] = f /\ Table.data = host.data
  BY OwnersAreOpen, TableShape
<1>2. CASE f.mode # "r"
  BY <1>1, <1>2, NothingLift DEF ReadByte
<1>3. CASE f.mode = "r" /\ f.pos < Len(host.data[f.name])
  <2>1. ReadByte(host, k) = Done(Advance(host, k), 0)
    BY <1>3 DEF ReadByte
  <2>2. ReadByte(Table, s) = Done(Advance(Table, s), 0)
    BY <1>1, <1>3 DEF ReadByte
  <2> QED BY <2>1, <2>2, AdvanceLift DEF Same, Done
<1>4. CASE f.mode = "r" /\ ~(f.pos < Len(host.data[f.name]))
  <2>1. ReadByte(host, k) = Done([host EXCEPT !.files[k].eof = TRUE], 0)
    BY <1>4 DEF ReadByte
  <2>2. ReadByte(Table, s) = Done([Table EXCEPT !.files[s].eof = TRUE], 0)
    BY <1>1, <1>4 DEF ReadByte
  <2> QED BY <2>1, <2>2, EofLift, ZenonT(40)
<1> QED BY <1>2, <1>3, <1>4

LEMMA ClearerrLift ==
  ASSUME Inv, NEW s, NEW k, Owns(s, k)
  PROVE  Same(Clearerr(Table, s), Clearerr(host, k))
  BY EofLift, Zenon DEF Clearerr

(* Where the code lets fseek move, it moves both.                           *)
LEMMA SeekLift ==
  ASSUME Inv, NEW s, NEW k \in Nat, Owns(s, k), NEW delta \in Int,
         NEW whence \in 0 .. 3
  PROVE  Same(Fseek(Table, s, delta, whence), Fseek(host, k, delta, whence))
<1> DEFINE f == host.files[k]
           len == Len(host.data[f.name])
           at == delta + CASE whence = 0 -> 0
                           [] whence = 1 -> f.pos
                           [] whence > 1 -> len
           g == [f EXCEPT !.pos = at]
           e == [g EXCEPT !.eof = FALSE]
<1>1. Table.files[s] = f /\ Table.data = host.data
  BY OwnersAreOpen, TableShape
<1>2. k > 0 /\ s > 0
  BY OwnersAreOpen, HandlesAreNumbers DEF Owns, IsOpen, AllHandles
<1>3. k \in AllHandles /\ s \in Files
  BY DEF Owns, IsOpen, AllHandles
<1>4. s \in Int
  BY <1>3, FilesAreNumbers
<1>5. Fseek(host, k, delta, whence)
        = IF whence > 2 THEN Leave(host, "whence")
          ELSE IF at < 0 THEN Done(host, 0)
          ELSE Clearerr([host EXCEPT !.files[k].pos = at], k)
  <2> HIDE DEF len
  <2> QED BY <1>2 DEF Fseek, len
<1>6. Fseek(Table, s, delta, whence)
        = IF whence > 2 THEN Leave(Table, "whence")
          ELSE IF at < 0 THEN Done(Table, 0)
          ELSE Clearerr([Table EXCEPT !.files[s].pos = at], s)
  BY <1>1, <1>2, <1>4 DEF Fseek
<1> HIDE DEF at, len
<1>7. [host EXCEPT !.files[k].pos = at] = [host EXCEPT !.files[k] = g]
      /\ [Table EXCEPT !.files[s].pos = at] = [Table EXCEPT !.files[s] = g]
  BY <1>1, TableShape, HostShape
<1>8. Clearerr([host EXCEPT !.files[k] = g], k)
        = Done([host EXCEPT !.files[k] = e], 0)
  BY <1>3 DEF Clearerr, Inv, TypeOK, HostType, AllHandles
<1>9. Clearerr([Table EXCEPT !.files[s] = g], s)
        = Done([Table EXCEPT !.files[s] = e], 0)
  BY <1>3 DEF Clearerr, Table, TableOf
<1>10. Same(Done([Table EXCEPT !.files[s] = e], 0),
            Done([host EXCEPT !.files[k] = e], 0))
  <2> HIDE DEF e
  <2> QED BY FileLift DEF Same, Done
<1>11. Same(Leave(Table, "whence"), Leave(host, "whence"))
  BY DEF Same, Leave, Table
<1> HIDE DEF e, g
<1> QED BY <1>5, <1>6, <1>7, <1>8, <1>9, <1>10, <1>11, NothingLift

LEMMA InitMaps == Init => S!Init
<1> SUFFICES ASSUME Init PROVE S!Init
  OBVIOUS
<1>1. \A s \in Slots : handle[s] = 0
  BY FilesAreNumbers DEF Init, Files
<1>2. S!InitHost = host
  BY DEF Init, InitHost, S!InitHost, S!Handles, Handles, S!ClosedFile, ClosedFile,
         S!StdName, StdName, S!AllNames, AllNames
<1>3. Table = [files |-> [s \in Files |-> IF s \in StdHandles THEN host.files[s]
                                          ELSE ClosedFile],
               data |-> host.data]
  <2>1. \A s \in Files : s \in StdHandles \/ handle[s] = 0
    BY <1>1 DEF Files
  <2> QED BY <2>1 DEF Table, TableOf
<1>4. Detached = {}
  BY HandlesAreNumbers DEF Init, Detached, Files
<1> QED BY <1>2, <1>3, <1>4, SameCalls DEF S!Init, S!ClosedFile, ClosedFile, Init

StdioVars == << Table, Detached, status >>

LEMMA StopMaps ==
  ASSUME status = "RUNNING", UNCHANGED << Table, Detached >>,
         status' \in {"USAGE", "dotdot", "notopen", "EXIT"}
  PROVE  S!Next
  BY DEF S!Next, S!Stop

LEMMA SyscallMaps ==
  ASSUME NEW a, NEW r, Same(a, r), Syscall(r)
  PROVE  S!Becomes(a) /\ UNCHANGED Detached
  BY DEF Same, Syscall, Left, S!Becomes, Table, Detached

LEMMA NotOpenMaps ==
  ASSUME status = "RUNNING", Syscall(Leave(host, "notopen"))
  PROVE  S!Next
<1>1. UNCHANGED << Table, Detached >> /\ status' = "notopen"
  BY DEF Syscall, Leave, Left, Table, Detached
<1> QED BY <1>1, StopMaps

LEMMA FileioMaps ==
  ASSUME Inv, status = "RUNNING", SomeFileio
  PROVE  [S!Next]_StdioVars
<1>1. PICK f \in Functions \ {"fclose"}, n \in Numbers, b \in Byte :
         /\ b # "nul" \/ f = "fgetc"
         /\ Syscall(Fileio(host, f, n, b))
  BY DEF SomeFileio
<1> DEFINE r == Fileio(host, f, n, b)
<1>2. Syscall(Done(host, 0)) => UNCHANGED StdioVars
  BY DEF Syscall, Done, Left, StdioVars, Table, Detached
<1>3. CASE ~IsOpen(host, n)
  <2>1. r \in {Done(host, 0), Leave(host, "notopen")}
    BY <1>3 DEF Fileio
  <2> QED BY <1>1, <1>2, <2>1, NotOpenMaps
<1>4. CASE IsOpen(host, n)
  <2>1. PICK s \in Files : Owns(s, n)
    BY <1>4, OwnersOfHandles DEF Owns
  <2>2. S!Open(s)
    BY <2>1, OwnersAreOpen
  <2>3. \/ r \in {Done(host, 0), ReadByte(host, n), Clearerr(host, n)}
        \/ f # "fgetc" /\ r \in {Fputc(host, n, b), WriteByte(host, n, b)}
    BY <1>4, Zenon DEF Fileio, Functions
  <2>4. CASE r = Done(host, 0)
    BY <1>1, <1>2, <2>4
  <2>5. CASE r \in {ReadByte(host, n), Clearerr(host, n)}
    <3>1. S!Becomes(S!ReadByte(Table, s)) \/ S!Becomes(S!Clearerr(Table, s))
      BY <1>1, <2>1, <2>5, ReadByteLift, ClearerrLift, SyscallMaps, SameCalls
    <3>2. UNCHANGED Detached
      BY <1>1, <2>1, <2>5, ReadByteLift, ClearerrLift, SyscallMaps
    <3>3. S!Read(s)
      BY <2>2, <3>1, <3>2 DEF S!Read
    <3> QED BY <3>3, SameCalls DEF S!Next
  <2>6. CASE f # "fgetc" /\ r \in {Fputc(host, n, b), WriteByte(host, n, b)}
    <3>1. S!Becomes(S!Fputc(Table, s, b)) \/ S!Becomes(S!WriteByte(Table, s, b))
      BY <1>1, <2>1, <2>6, FputcLift, WriteByteLift, SyscallMaps, SameCalls
    <3>2. UNCHANGED Detached
      BY <1>1, <2>1, <2>6, FputcLift, WriteByteLift, SyscallMaps
    <3>3. S!Write(s, b)
      BY <2>2, <3>1, <3>2 DEF S!Write
    <3>4. b \in S!Byte \ {"nul"}
      BY <1>1, <2>6 DEF S!Byte, Byte
    <3> QED BY <3>3, <3>4, SameCalls DEF S!Next
  <2> QED BY <2>3, <2>4, <2>5, <2>6
<1> QED BY <1>3, <1>4

LEMMA SeekMaps ==
  ASSUME Inv, status = "RUNNING", SomeSeek
  PROVE  [S!Next]_StdioVars
<1>1. PICK n \in Numbers, delta \in {-1, 0}, whence \in 0 .. 3 :
         n >= 0 /\ Syscall(FileioSeek(host, n, delta, whence))
  BY DEF SomeSeek, SeekHandle
<1>2. n \in Nat /\ delta \in Int
  BY <1>1, HandlesAreNumbers DEF Numbers
<1>3. CASE ~IsOpen(host, n)
  BY <1>1, <1>3, NotOpenMaps DEF FileioSeek
<1>4. CASE IsOpen(host, n)
  <2>1. PICK s \in Files : Owns(s, n)
    BY <1>4, OwnersOfHandles DEF Owns
  <2>2. S!Open(s) /\ s \in Slots
    <3>1. n \notin StdHandles
      BY <1>2, HandlesAreNumbers
    <3> QED BY <2>1, <3>1, OwnersAreOpen DEF Owns, Behind
  <2>3. Same(Fseek(Table, s, delta, whence), Fseek(host, n, delta, whence))
    BY <1>2, <2>1, SeekLift
  <2>4. Syscall(Fseek(host, n, delta, whence))
    BY <1>1, <1>4 DEF FileioSeek
  <2>5. S!Becomes(S!Fseek(Table, s, delta, whence)) /\ UNCHANGED Detached
    BY <2>3, <2>4, SyscallMaps, SameCalls
  <2>6. S!Seek(s, delta, whence)
    BY <2>2, <2>5 DEF S!Seek
  <2> QED BY <2>2, <2>6, SameCalls DEF S!Next
<1> QED BY <1>3, <1>4

LEMMA FcloseMaps ==
  ASSUME Inv, StreamsOpen, status = "RUNNING", NEW s \in Files, FileFclose(s)
  PROVE  S!Next
<1> DEFINE n == handle[s]
           c == [host EXCEPT !.files[n] = ClosedFile]
<1>1. /\ host' = Fileio(host, "fclose", n, "nul").host
      /\ status' = Left(Fileio(host, "fclose", n, "nul"))
      /\ handle' = IF Fileio(host, "fclose", n, "nul").left = "no"
                   THEN [handle EXCEPT ![s] = 0] ELSE handle
  BY DEF FileFclose
<1>2. /\ n \in Numbers /\ host \in HostType
      /\ handle \in [Files -> StdHandles \cup 0 .. HostSlots]
  BY DEF Inv, TypeOK, Numbers
<1> HIDE DEF n
<1>3. CASE ~IsOpen(host, n)
  <2>1. Fileio(host, "fclose", n, "nul") = Leave(host, "notopen")
    BY <1>3 DEF Fileio
  <2>2. UNCHANGED << Table, Detached >> /\ status' = "notopen"
    BY <1>1, <2>1 DEF Leave, Left, Table, Detached
  <2> QED BY <2>2, StopMaps
<1>4. CASE IsOpen(host, n) /\ s \in StdHandles
  <2>1. n = s /\ n \in Int /\ n < 0 /\ ~(n > 0)
    BY <1>4, HandlesAreNumbers DEF n, Inv, StandardStreams, IsOpen, AllHandles
  <2>2. Fileio(host, "fclose", n, "nul") = Done(host, 0)
    BY <1>4, <2>1 DEF Fileio, Fclose
  <2>3. /\ host' = host /\ status' = "RUNNING"
        /\ \A t \in Files : handle'[t] = IF t = s THEN 0 ELSE handle[t]
    BY <1>1, <1>2, <2>2 DEF Done, Left
  <2>4. Table' = Table
    <3>1. \A t \in Files : t \in StdHandles \/ handle'[t] = handle[t]
      BY <1>4, <2>3
    <3> QED BY <2>3, <3>1 DEF Table, TableOf
  <2>5. s \notin Detached /\ Detached' = Detached \cup {s}
    BY <1>4, <2>1, <2>3 DEF Detached, n, Files
  <2>6. Fclose(Table, s) = Done(Table, 0)
    BY <2>1 DEF Fclose
  <2>7. Table.files[s] = host.files[s] /\ S!Open(s)
    BY <1>4, SameCalls DEF Table, TableOf, S!Open, Files
  <2>8. S!Becomes(S!Fclose(Table, s))
    BY <2>3, <2>4, <2>6, SameCalls DEF S!Becomes, Done
  <2>9. S!Close(s)
    BY <1>4, <2>5, <2>7, <2>8 DEF S!Close
  <2> QED BY <2>9, SameCalls DEF S!Next
<1>5. CASE IsOpen(host, n) /\ s \in Slots
  <2>1. n \in Handles /\ n > 0 /\ s > 0 /\ s \notin StdHandles
    <3>1. n # 0
      BY <1>5, HandlesAreNumbers DEF IsOpen, AllHandles
    <3>2. n \in Handles
      BY <1>5, <3>1 DEF Inv, TablesAgree, n
    <3>3. s > 0
      BY <1>5, FileSlotsAssumption DEF Slots
    <3> QED BY <1>5, <3>2, <3>3, HandlesAreNumbers, FilesAreNumbers
  <2>2. Owns(s, n)
    <3>1. Behind(s) = n
      BY <2>1 DEF Behind, n
    <3> QED BY <1>5, <3>1, OwnersOfHandles DEF Owns
  <2>3. Fileio(host, "fclose", n, "nul") = Done(c, 0)
    BY <1>5, <2>1 DEF Fileio, Fclose
  <2>4. /\ host' = c /\ status' = "RUNNING"
        /\ \A t \in Files : handle'[t] = IF t = s THEN 0 ELSE handle[t]
    <3> HIDE DEF c
    <3> QED BY <1>1, <1>2, <2>3 DEF Done, Left
  <2>5. TableOf(c, handle) = [Table EXCEPT !.files[s] = ClosedFile]
    <3>1. \A g : TableOf([host EXCEPT !.files[n] = g], handle) = [Table EXCEPT !.files[s] = g]
      BY <2>2, FileLift
    <3> QED BY ONLY <3>1
  <2>6. Table' = TableOf(c, handle)
    <3>1. c.files[n] = ClosedFile
      BY <1>2, <2>1 DEF HostType
    <3>2. \A t \in Files \ {s} : handle'[t] = handle[t]
      BY <2>4
    <3>3. handle'[s] = 0 /\ handle[s] = n
      BY <2>4 DEF n
    <3> HIDE DEF c
    <3>4. \A t \in Files : (IF t \in StdHandles THEN c.files[t]
                            ELSE IF handle'[t] = 0 THEN ClosedFile
                            ELSE c.files[handle'[t]])
                         = (IF t \in StdHandles THEN c.files[t]
                            ELSE IF handle[t] = 0 THEN ClosedFile
                            ELSE c.files[handle[t]])
      BY <3>1, <3>2, <3>3
    <3> QED BY <2>4, <3>4 DEF Table, TableOf
  <2>7. Detached' = Detached
    BY <2>1, <2>4 DEF Detached, Files
  <2>8. Fclose(Table, s) = Done([Table EXCEPT !.files[s] = ClosedFile], 0)
    BY <2>1 DEF Fclose
  <2>9. S!Becomes(S!Fclose(Table, s))
    BY <2>4, <2>5, <2>6, <2>8, SameCalls DEF S!Becomes, Done
  <2>10. s \notin Detached /\ S!Open(s)
    BY <2>1, <2>2, OwnersAreOpen DEF Detached
  <2>11. S!Close(s)
    BY <2>1, <2>7, <2>9, <2>10 DEF S!Close
  <2> QED BY <2>11, SameCalls DEF S!Next
<1> QED BY <1>3, <1>4, <1>5 DEF Files

(* The host's slot may be any one that was closed.                          *)
LEMMA OpenMaps ==
  ASSUME Inv, FileSlots <= HostSlots, NEW addr \in Addrs, NEW mode \in Modes,
         NEW can \in BOOLEAN, Open(addr, mode, can)
  PROVE  [S!Next]_StdioVars
<1> DEFINE name == ReadString(addr)
           r == Fopen(host, sandbox, addr, mode, can)
           s == FindFree
           n == CHOOSE k \in Handles :
                  ~IsOpen(host, k) /\ \A j \in 1 .. k - 1 : IsOpen(host, j)
           f == [name |-> name, mode |-> mode, pos |-> 0, eof |-> FALSE]
           d == IF mode = "r" THEN host.data[name] ELSE << >>
           g == IF mode = "r" THEN host ELSE [host EXCEPT !.data[name] = << >>]
           c == [g EXCEPT !.files[n] = f]
<1>1. /\ host' = r.host /\ status' = Left(r) /\ status = "RUNNING"
      /\ handle' = [handle EXCEPT ![s] = r.ret]
  BY DEF Open
<1>2. s \in Slots /\ handle[s] = 0
  BY FindFreeIsFree DEF Open, FreeSlots
<1>3. ~ \A k \in Handles : IsOpen(host, k)
  BY Pigeonhole DEF Open
<1>4. r \in {Leave(host, "USAGE"), Leave(host, "dotdot"), Done(host, 0), Done(c, n)}
  BY <1>3, Zenon DEF Fopen
<1>5. host \in HostType /\ handle \in [Files -> StdHandles \cup 0 .. HostSlots]
      /\ sandbox \in BOOLEAN /\ s \in Files
  BY <1>2 DEF Inv, TypeOK, Files
<1>6. r.ret # 0 => r.ret \in Handles /\ ~IsOpen(host, r.ret)
  BY <1>5, FopenEffect
<1>7. name \in Names
  BY TextAssumption DEF ReadString
<1> HIDE DEF r, s, name
<1>8. CASE r.ret = 0
  <2>1. handle' = handle
    BY <1>1, <1>2, <1>5, <1>8
  <2>2. n # 0 => r # Done(c, n)
    BY <1>8 DEF Done
  <2>3. n \in Handles /\ n # 0
    <3>1. PICK k \in Handles : /\ ~IsOpen(host, k)
                               /\ \A j \in 1 .. k - 1 : IsOpen(host, j)
      <4> DEFINE T == {k \in Handles : ~IsOpen(host, k)}
      <4>1. PICK k \in T : \A j \in T : k <= j
        BY <1>3, Least, HandlesAreNumbers
      <4> QED BY <4>1, HostSlotsAssumption DEF Handles
    <3>2. n \in Handles
      BY <3>1, Zenon
    <3> HIDE DEF n
    <3> QED BY <3>2, HandlesAreNumbers
  <2>4. r \in {Leave(host, "USAGE"), Leave(host, "dotdot"), Done(host, 0)}
    BY <1>4, <2>2, <2>3
  <2>5. host' = host /\ status' \in {"RUNNING", "USAGE", "dotdot"}
    BY <1>1, <2>4 DEF Leave, Done, Left
  <2>6. UNCHANGED << Table, Detached >>
    BY <2>1, <2>5 DEF Table, Detached
  <2> QED BY <1>1, <2>5, <2>6, StopMaps DEF StdioVars
<1>9. CASE r.ret # 0
  <2> DEFINE m == r.ret
  <2>1. r = Done(c, n) /\ m = n
    BY <1>4, <1>9 DEF Leave, Done
  <2>2. /\ host' = c /\ status' = "RUNNING"
        /\ m \in Handles /\ ~IsOpen(host, m) /\ m # 0
    BY <1>1, <1>6, <1>9, <2>1 DEF Done, Left
  <2>3. /\ c.files = [host.files EXCEPT ![m] = f]
        /\ c.data = [host.data EXCEPT ![name] = d]
    <3>1. g.files = host.files /\ g.data = [host.data EXCEPT ![name] = d]
      <4>1. name \in AllNames
        BY <1>7 DEF AllNames
      <4> QED BY <1>5, <4>1 DEF HostType
    <3>2. g = [files |-> g.files, data |-> g.data]
      BY <1>5 DEF HostType
    <3> HIDE DEF g, d, f, n, m
    <3> QED BY <2>1, <3>1, <3>2
  <2> HIDE DEF c, m
  <2>4. \A t \in Files : handle'[t] = IF t = s THEN m ELSE handle[t]
    BY <1>1, <1>5 DEF m
  <2>5. s \notin StdHandles
    BY <1>2, FilesAreNumbers
  <2>6. \A t \in Slots : handle[t] # m
    BY <2>2 DEF Inv, TablesAgree
  <2>7. host.files \in [AllHandles -> FileType] /\ m \in AllHandles
    BY <1>5, <2>2 DEF HostType, AllHandles
  <2>8. \A t \in Files : (IF t \in StdHandles THEN c.files[t]
                          ELSE IF handle'[t] = 0 THEN ClosedFile
                          ELSE c.files[handle'[t]])
                       = IF t = s THEN f
                         ELSE IF t \in StdHandles THEN host.files[t]
                              ELSE IF handle[t] = 0 THEN ClosedFile
                              ELSE host.files[handle[t]]
    <3> HIDE DEF f
    <3> SUFFICES ASSUME NEW t \in Files
                 PROVE  (IF t \in StdHandles THEN c.files[t]
                         ELSE IF handle'[t] = 0 THEN ClosedFile
                         ELSE c.files[handle'[t]])
                       = IF t = s THEN f
                         ELSE IF t \in StdHandles THEN host.files[t]
                              ELSE IF handle[t] = 0 THEN ClosedFile
                              ELSE host.files[handle[t]]
      OBVIOUS
    <3>1. CASE t = s
      BY <2>2, <2>3, <2>4, <2>5, <2>7, <3>1
    <3>2. CASE t # s /\ t \in StdHandles
      <4>1. t # m /\ t \in AllHandles
        BY <2>2, <3>2, HandlesAreNumbers DEF AllHandles
      <4> QED BY <2>3, <2>7, <3>2, <4>1
    <3>3. CASE t # s /\ t \in Slots
      <4>1. handle'[t] = handle[t] /\ handle[t] # m /\ t \notin StdHandles
        BY <2>4, <2>6, <3>3, FilesAreNumbers
      <4>2. handle[t] # 0 => handle[t] \in AllHandles
        BY <3>3 DEF Inv, TablesAgree, AllHandles
      <4> QED BY <2>3, <2>7, <3>3, <4>1, <4>2
    <3> QED BY <3>1, <3>2, <3>3 DEF Files
  <2>9. Table' = [files |-> [Table.files EXCEPT ![s] = f],
                  data |-> [host.data EXCEPT ![name] = d]]
    <3> HIDE DEF f, d
    <3>1. Table.files = [t \in Files |-> IF t \in StdHandles THEN host.files[t]
                                         ELSE IF handle[t] = 0 THEN ClosedFile
                                         ELSE host.files[handle[t]]]
      BY DEF Table, TableOf
    <3>2. Table' = [files |-> [t \in Files |->
                                 IF t \in StdHandles THEN c.files[t]
                                 ELSE IF handle'[t] = 0 THEN ClosedFile
                                 ELSE c.files[handle'[t]]],
                    data |-> c.data]
      BY <2>2 DEF Table, TableOf
    <3>3. [t \in Files |-> IF t \in StdHandles THEN c.files[t]
                           ELSE IF handle'[t] = 0 THEN ClosedFile
                           ELSE c.files[handle'[t]]]
            = [Table.files EXCEPT ![s] = f]
      BY <1>5, <2>8, <3>1
    <3> QED BY <2>3, <3>2, <3>3
  <2>10. Table' = [Table EXCEPT !.files[s] = f,
                               !.data[name] = IF mode = "r" THEN @ ELSE << >>]
    <3>1. Table = [files |-> Table.files, data |-> host.data]
      BY DEF Table, TableOf
    <3> DEFINE V == [Table EXCEPT !.files[s] = f]
               U == [V EXCEPT !.data[name] = IF mode = "r" THEN @ ELSE << >>]
    <3> HIDE DEF f, V
    <3>2. V = [files |-> [Table.files EXCEPT ![s] = f], data |-> host.data]
      BY <3>1 DEF V
    <3> HIDE DEF U
    <3>3. U = [files |-> [Table.files EXCEPT ![s] = f],
               data |-> [host.data EXCEPT ![name] = d]]
      BY <3>2 DEF U
    <3> QED BY <2>9, <3>3, Zenon DEF U, V
  <2>11. Detached' = Detached
    BY <2>4, <2>5 DEF Detached, Files
  <2>12. ~S!Open(s)
    BY <1>2, <1>5, <2>5, SameCalls DEF S!Open, Table, TableOf, ClosedFile
  <2>13. S!Attach(name, mode, s)
    BY <1>1, <2>2, <2>10, <2>11, <2>12 DEF S!Attach
  <2>14. S!Modes = Modes
    BY DEF S!Modes, Modes
  <2> QED BY <1>1, <1>2, <1>7, <2>13, <2>14, SameCalls DEF S!Next
<1> QED BY <1>8, <1>9

(* With no more FILEs than the host has slots, a program that is linked     *)
(* with fileio.c has the files that stdio promises: every behaviour of the  *)
(* two tables and their handles is one of Stdio's single table.             *)
THEOREM FileIOIsStdio ==
  ASSUME FileSlots <= HostSlots
  PROVE  Spec => ImplementsStdio
<1>1. Init => S!Init
  BY InitMaps
<1>2. ASSUME Inv, StreamsOpen, [Next]_vars
      PROVE  [S!Next]_StdioVars
  <2>1. CASE UNCHANGED vars
    BY <2>1 DEF vars, StdioVars, Table, TableOf, Detached
  <2>2. CASE Next
    <3>1. CASE Exit
      <4>1. UNCHANGED << Table, Detached >>
            /\ status = "RUNNING" /\ status' = "EXIT"
        BY <3>1 DEF Exit, Table, Detached
      <4> QED BY <4>1, StopMaps
    <3> QED BY <1>2, <2>2, <3>1, Calls, OpenMaps, FcloseMaps, FileioMaps, SeekMaps
  <2> QED BY <1>2, <2>1, <2>2
<1> QED BY <1>1, <1>2, InvHolds, StreamsStayOpen, PTL
        DEF Spec, ImplementsStdio, S!Spec, StdioVars
=============================================================================
