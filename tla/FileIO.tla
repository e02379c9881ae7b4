------------------------------- MODULE FileIO -------------------------------
(***************************************************************************)
(* File I/O of a target program that is linked with fileio.c: the functions *)
(* of stdio.h on FILE pointers and the host_ functions on handles, both on  *)
(* the target's table files[], and the host's table behind them.  A program *)
(* is any sequence of calls, with pointers and handles it may have kept     *)
(* after closing them.                                                      *)
(***************************************************************************)
EXTENDS HostFiles

CONSTANTS
  FileSlots,   (* FILEs for fopen: FILEIO_N_FILES - 3 = 5                   *)
  Sandbox      (* the values of options.do_sandbox: whether -sbox is given  *)

ASSUME FileSlotsAssumption == FileSlots \in Nat /\ Sandbox \subseteq BOOLEAN

VARIABLES
  host,      (* files[] of host.c and the files on the disk                 *)
  handle,    (* files[].handle of fileio.c; 0: not in use                   *)
  dir,       (* files[].theFILE.flags: __SRD and __SWR                      *)
  sandbox,   (* options.do_sandbox                                          *)
  asked,     (* for each FILE, the name in the last fopen that succeeded    *)
  status     (* program.leave_status, as the reason given to leave()        *)

vars == << host, handle, dir, sandbox, asked, status >>

(* A FILE pointer is the number of its element: host_stdin is -1.           *)
Slots == 1 .. FileSlots
Files == StdHandles \cup Slots

Reasons == {"USAGE", "dotdot", "full", "notopen", "whence", "seek"}

(* init_host_streams                                                        *)
Init ==
  /\ host = InitHost
  /\ handle = [s \in Files |-> IF s \in StdHandles THEN s ELSE 0]
  /\ dir = [s \in Files |-> CASE s = -1 -> {"read"}
                              [] s \in {-2, -3} -> {"write"}
                              [] OTHER -> {}]
  /\ sandbox \in Sandbox
  /\ asked = [s \in Slots |-> "none"]
  /\ status = "RUNNING"

Left(r) == IF r.left = "no" THEN "RUNNING" ELSE r.left

(* A call that does nothing but the syscall.                                *)
Syscall(r) ==
  /\ host' = r.host
  /\ status' = Left(r)
  /\ UNCHANGED << handle, dir, sandbox, asked >>

(* Seeded fault: a FILE is taken whether it is in use or not.                *)
FreeSlotsAny == Slots

(* find_file (NULL)                                                         *)
FreeSlots == {s \in Slots : handle[s] = 0}

FindFree == CHOOSE s \in FreeSlots : \A t \in FreeSlots : s <= t

(* file_fopen, for fopen and host_fopen.                                    *)
Open(addr, mode, can) ==
  LET r == Fopen(host, sandbox, addr, mode, can)
      s == FindFree
  IN  /\ status = "RUNNING"
      /\ FreeSlots # {}
      /\ host' = r.host
      /\ status' = Left(r)
      /\ handle' = [handle EXCEPT ![s] = r.ret]
      /\ IF r.ret # 0
         THEN /\ dir' = [dir EXCEPT ![s] =
                           IF mode = "r" THEN {"read"} ELSE {"write"}]
              /\ asked' = [asked EXCEPT ![s] = RamText[addr]]
         ELSE UNCHANGED << dir, asked >>
      /\ UNCHANGED sandbox

(* Seeded fault: the handle stays in files[].                               *)
FileFcloseKeeps(s) == Syscall(Fileio(host, "fclose", handle[s], "nul"))

(* file_fclose; the handle is cleared when the syscall has returned.        *)
FileFclose(s) ==
  LET r == Fileio(host, "fclose", handle[s], "nul")
  IN  /\ host' = r.host
      /\ status' = Left(r)
      /\ handle' = IF r.left = "no" THEN [handle EXCEPT ![s] = 0] ELSE handle
      /\ UNCHANGED << dir, sandbox, asked >>

(* fclose, which is __wrap_fclose.                                          *)
FcloseFile(s) == status = "RUNNING" /\ FileFclose(s)

(* Seeded fault: host_fclose does not give up the FILE of the handle.        *)
FcloseHandleKeeps(n) ==
  /\ status = "RUNNING"
  /\ n > 0
  /\ (\E s \in Files : handle[s] = n) /\ Syscall(Fileio(host, "fclose", n, "nul"))

(* host_fclose: a handle that is not in use is no error.                    *)
FcloseHandle(n) ==
  /\ status = "RUNNING"
  /\ n > 0
  /\ \E s \in Files : handle[s] = n /\ FileFclose(s)

(* fputc of avr-libc, which looks at the flags before it calls file_put.    *)
Put(s, b) ==
  /\ status = "RUNNING"
  /\ "write" \in dir[s]
  /\ Syscall(Fileio(host, "fputc", handle[s], b))

(* fgetc of avr-libc, and file_get.                                         *)
Get(s) ==
  /\ status = "RUNNING"
  /\ "read" \in dir[s]
  /\ Syscall(Fileio(host, "fgetc", handle[s], "nul"))

(* feof, clearerr, fflush, fread and fwrite of fileio.c.                    *)
OnFile(f, s, b) ==
  /\ status = "RUNNING"
  /\ f \in {"feof", "clearerr", "fflush", "fread", "fwrite"}
  /\ Syscall(Fileio(host, f, handle[s], b))

(* The host_ functions other than host_fopen, host_fclose and host_fseek.   *)
OnHandle(f, n, b) ==
  /\ status = "RUNNING"
  /\ f \in Functions \ {"fclose"}
  /\ Syscall(Fileio(host, f, n, b))

(* host_fseek: no syscall for the standard streams.                         *)
SeekHandle(n, delta, whence) ==
  /\ status = "RUNNING"
  /\ n >= 0
  /\ Syscall(FileioSeek(host, n, delta, whence))

SeekFile(s, delta, whence) == SeekHandle(handle[s], delta, whence)

Exit == /\ status = "RUNNING"
        /\ status' = "EXIT"
        /\ UNCHANGED << host, handle, dir, sandbox, asked >>

Numbers == StdHandles \cup 0 .. HostSlots

Next ==
  \/ \E addr \in Addrs, mode \in Modes, can \in BOOLEAN : Open(addr, mode, can)
  \/ \E s \in Files : FcloseFile(s)
  \/ \E n \in Numbers : FcloseHandle(n)
  \/ \E s \in Files, b \in Byte \ {"nul"} : Put(s, b)
  \/ \E s \in Files : Get(s)
  \/ \E f \in Functions, s \in Files, b \in Byte \ {"nul"} : OnFile(f, s, b)
  \/ \E f \in Functions, n \in Numbers, b \in Byte \ {"nul"} : OnHandle(f, n, b)
  \/ \E n \in Numbers, delta \in {-1, 0}, whence \in 0 .. 3 :
       SeekHandle(n, delta, whence)
  \/ \E s \in Files, delta \in {-1, 0}, whence \in 0 .. 3 :
       SeekFile(s, delta, whence)
  \/ Exit

Spec == Init /\ [][Next]_vars

-----------------------------------------------------------------------------

TypeOK ==
  /\ host \in HostType
  /\ handle \in [Files -> StdHandles \cup 0 .. HostSlots]
  /\ dir \in [Files -> SUBSET {"read", "write"}]
  /\ sandbox \in BOOLEAN
  /\ asked \in [Slots -> Names \cup {"none"}]
  /\ status \in {"RUNNING", "EXIT"} \cup Reasons

(* The two tables tell the same: the files that are open on the host are    *)
(* those for which fileio.c holds a handle, one element each, so that no    *)
(* file is lost and no two FILEs share one.                                 *)
TablesAgree ==
  /\ \A s \in Slots : handle[s] # 0 =>
       /\ handle[s] \in Handles /\ IsOpen(host, handle[s])
       /\ \A t \in Slots : handle[t] = handle[s] => t = s
  /\ \A n \in Handles : IsOpen(host, n) => \E s \in Slots : handle[s] = n

(* "ran out of %d file handles" cannot happen to a program that uses        *)
(* fileio.c: its table of five fills up before the host's eight, and fopen  *)
(* returns NULL instead.                                                    *)
HostNeverRunsOut == status # "full"

(* What a FILE reads and writes is the file that fopen was asked to open,   *)
(* whatever was opened, closed and left unclosed before.                    *)
FileOfTheName ==
  \A s \in Slots : handle[s] # 0 => host.files[handle[s]].name = asked[s]
=============================================================================
