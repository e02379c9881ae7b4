------------------------------ MODULE HostFiles ------------------------------
(***************************************************************************)
(* The host's half of file I/O: SYSCALL 26 and the table of open files that *)
(* host_fileio and its handlers work on (host.c).  A syscall is a function  *)
(* of the table and its arguments, so these are operators on a record `h';  *)
(* the module of the target's half owns the state.                          *)
(*                                                                         *)
(* stdio of the host is external: a file is the sequence of its bytes, and  *)
(* a write may fail.  Buffers are left out, and with them what fflush does. *)
(***************************************************************************)
EXTENDS Integers, Sequences

CONSTANTS
  HostSlots,   (* how many files may be open: 8                             *)
  StdHandles,  (* the handles of stdin, stdout and stderr: -3 .. -1         *)
  Names,       (* strings, as file names; some contain ".."                 *)
  DotDot,
  Addrs,       (* addresses of names in the memories of the target          *)
  RamText,     (* the string at an address of RAM ...                       *)
  FlashText,   (* ... and of flash                                          *)
  PmOffset,    (* arch.flash_pm_offset, where RAM shows the flash; 0: it    *)
               (* does not                                                  *)
  MaxLen       (* bound on the size of a file; beyond it the disk is full   *)

ASSUME HostSlotsAssumption == HostSlots \in Nat
ASSUME StdHandlesAssumption == StdHandles \subseteq -3 .. -1
ASSUME NamesAssumption == DotDot \subseteq Names
ASSUME TextAssumption ==
  /\ Addrs \subseteq Nat /\ PmOffset \in Nat /\ MaxLen \in Nat
  /\ RamText \in [Addrs -> Names] /\ FlashText \in [Addrs -> Names]

Handles == 1 .. HostSlots

StdName(n) == CASE n = -1 -> "@stdin" [] n = -2 -> "@stdout" [] n = -3 -> "@stderr"
AllNames == Names \cup {StdName(n) : n \in StdHandles}

Byte  == {"x", "cr", "nul"}
Modes == {"r", "w", "wb"}

(* file_t: handle is the index.  mode "none": file is NULL.  pos and eof    *)
(* belong to the FILE of the host.                                          *)
ClosedFile == [name |-> "none", mode |-> "none", pos |-> 0, eof |-> FALSE]

OpenFile == [name : AllNames, mode : Modes, pos : Nat, eof : BOOLEAN]
FileType == OpenFile \cup {ClosedFile}

HostType == [files : [StdHandles \cup Handles -> FileType],
             data  : [AllNames -> Seq(Byte)]]

InitHost ==
  [files |-> [n \in StdHandles \cup Handles |->
                IF n \in StdHandles
                THEN [name |-> StdName(n),
                      mode |-> IF n = -1 THEN "r" ELSE "wb",
                      pos |-> 0, eof |-> FALSE]
                ELSE ClosedFile],
   data  |-> [f \in AllNames |-> << >>]]

IsOpen(h, n) == n \in StdHandles \cup Handles /\ h.files[n].mode # "none"

(* What a syscall leaves: the new state, why the simulation ends if it      *)
(* does, and R22 where it is a handle.                                      *)
Done(h, ret)   == [host |-> h, ret |-> ret, left |-> "no"]
Leave(h, why)  == [host |-> h, ret |-> 0, left |-> why]

-----------------------------------------------------------------------------

(* binary_p is set by fopen, for the standard streams from the beginning.   *)
Drops(h, n, b) == b = "cr" /\ h.files[n].mode = "w"

(* A byte to a position: what is skipped is filled with zeros.              *)
Overwrite(s, pos, b) ==
  LET len == IF pos < Len(s) THEN Len(s) ELSE pos + 1
  IN  [k \in 1 .. len |-> CASE k = pos + 1  -> b
                            [] k <= Len(s) /\ k # pos + 1 -> s[k]
                            [] OTHER -> "nul"]

Advance(h, n) == [h EXCEPT !.files[n].pos = @ + 1]

WriteByte(h, n, b) ==
  LET f == h.files[n]
  IN  IF f.mode \in {"w", "wb"} /\ f.pos < MaxLen
      THEN Done([Advance(h, n) EXCEPT
                   !.data[f.name] = Overwrite(@, f.pos, b)], 0)
      ELSE Done(h, 0)

ReadByte(h, n) ==
  LET f == h.files[n]
  IN  CASE f.mode # "r" -> Done(h, 0)
        [] f.mode = "r" /\ f.pos < Len(h.data[f.name]) -> Done(Advance(h, n), 0)
        [] OTHER -> Done([h EXCEPT !.files[n].eof = TRUE], 0)

(* read_string, told to read RAM by a constant (AR_RAM, 1) that it takes    *)
(* for flash_p.                                                             *)
ReadString(addr) ==
  IF PmOffset # 0 /\ addr >= PmOffset THEN RamText[addr] ELSE FlashText[addr]

(* host_fopen.  `can' is whether the host opens the file.                   *)
Fopen(h, sandbox, addr, mode, can) ==
  LET name == ReadString(addr)
      n    == CHOOSE k \in Handles :
                /\ ~IsOpen(h, k) /\ \A j \in 1 .. k - 1 : IsOpen(h, j)
      f    == [name |-> name, mode |-> mode, pos |-> 0, eof |-> FALSE]
      g    == IF mode = "r" THEN h ELSE [h EXCEPT !.data[name] = << >>]
  IN  CASE ~sandbox -> Leave(h, "USAGE")
        [] sandbox /\ name \in DotDot -> Leave(h, "dotdot")
        [] sandbox /\ name \notin DotDot /\ \A k \in Handles : IsOpen(h, k)
             -> Leave(h, "full")
        [] OTHER -> IF can THEN Done([g EXCEPT !.files[n] = f], n) ELSE Done(h, 0)

(* Seeded fault: the slot stays occupied.                                   *)
FcloseKeeps(h, n) == Done(h, 0)

(* host_fclose: the standard streams are not closed.                        *)
Fclose(h, n) ==
  IF n > 0 THEN Done([h EXCEPT !.files[n] = ClosedFile], 0) ELSE Done(h, 0)

(* host_fputc                                                               *)
Fputc(h, n, b) == IF Drops(h, n, b) THEN Done(h, 0) ELSE WriteByte(h, n, b)

(* host_clearerr                                                            *)
Clearerr(h, n) == Done([h EXCEPT !.files[n].eof = FALSE], 0)

(* Seeded fault: fseek goes where it is told.                               *)
FseekAnywhere(h, n, delta, whence) ==
  Done([h EXCEPT !.files[n].pos = @ + delta], 0)

(* host_fseek                                                               *)
Fseek(h, n, delta, whence) ==
  LET f  == h.files[n]
      at == delta + CASE whence = 0 -> 0
                      [] whence = 1 -> f.pos
                      [] whence > 1 -> Len(h.data[f.name])
  IN  CASE whence > 2 -> Leave(h, "whence")
        [] whence <= 2 /\ n < 0 -> Leave(h, "seek")
        [] whence <= 2 /\ n > 0 /\ at < 0 -> Done(h, 0)
        [] OTHER -> Clearerr([h EXCEPT !.files[n].pos = at], n)

(* The calls whose only argument is a handle, or a handle and a byte.       *)
Functions == {"fclose", "fgetc", "fputc", "feof", "clearerr", "fflush",
              "fread", "fwrite"}

(* host_fileio: find_file leaves the simulation unless the file is open;    *)
(* only fflush gives handle 0 a meaning.                                    *)
Fileio(h, f, n, b) ==
  CASE f = "fflush" /\ n = 0     -> Done(h, 0)
    [] ~IsOpen(h, n) /\ ~(f = "fflush" /\ n = 0) -> Leave(h, "notopen")
    [] IsOpen(h, n) /\ f = "fclose"   -> Fclose(h, n)
    [] IsOpen(h, n) /\ f = "fgetc"    -> ReadByte(h, n)
    [] IsOpen(h, n) /\ f = "fread"    -> ReadByte(h, n)
    [] IsOpen(h, n) /\ f = "fputc"    -> Fputc(h, n, b)
    [] IsOpen(h, n) /\ f = "fwrite"   -> WriteByte(h, n, b)
    [] IsOpen(h, n) /\ f = "feof"     -> Done(h, 0)
    [] IsOpen(h, n) /\ f = "clearerr" -> Clearerr(h, n)
    [] IsOpen(h, n) /\ f = "fflush"   -> Done(h, 0)

FileioSeek(h, n, delta, whence) ==
  IF IsOpen(h, n) THEN Fseek(h, n, delta, whence) ELSE Leave(h, "notopen")
==============================================================================
