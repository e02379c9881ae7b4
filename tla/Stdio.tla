-------------------------------- MODULE Stdio --------------------------------
(***************************************************************************)
(* What a program that uses fileio.c is promised: one table of open files,  *)
(* named by FILE pointers, as with the stdio of a hosted C program.  There  *)
(* are no handles, and no table behind the table that might fill up, share  *)
(* an element or keep one: in particular "ran out of file handles" is not   *)
(* among the ways to stop.  A call with a handle is a call on an open file. *)
(***************************************************************************)
EXTENDS HostFiles

CONSTANT FileSlots

VARIABLES
  table,     (* the file behind each FILE pointer, and the disk             *)
  detached,  (* the standard FILEs that were closed; the streams go on      *)
  status

Slots == 1 .. FileSlots
Files == StdHandles \cup Slots

Open(s) == s \in StdHandles \/ (s \in Slots /\ table.files[s].mode # "none")

Init ==
  /\ table = [files |-> [s \in Files |-> IF s \in StdHandles
                                         THEN InitHost.files[s] ELSE ClosedFile],
              data  |-> InitHost.data]
  /\ detached = {}
  /\ status = "RUNNING"

Becomes(r) == /\ table' = r.host
              /\ status' = IF r.left = "no" THEN "RUNNING" ELSE r.left

(* fopen: a FILE that is not in use is attached to a file.                  *)
Attach(name, mode, s) ==
  /\ ~Open(s)
  /\ table' = [table EXCEPT
                 !.files[s] = [name |-> name, mode |-> mode, pos |-> 0,
                               eof |-> FALSE],
                 !.data[name] = IF mode = "r" THEN @ ELSE << >>]
  /\ UNCHANGED << detached, status >>

(* fclose; after it the FILE can be used for another file.                  *)
Close(s) ==
  /\ Open(s)
  /\ s \notin detached
  /\ Becomes(Fclose(table, s))
  /\ detached' = IF s \in StdHandles THEN detached \cup {s} ELSE detached

(* Reading, writing and seeking change their own stream and its file.       *)
Read(s) == /\ Open(s)
           /\ Becomes(ReadByte(table, s)) \/ Becomes(Clearerr(table, s))
           /\ UNCHANGED detached

Write(s, b) == /\ Open(s)
               /\ Becomes(Fputc(table, s, b)) \/ Becomes(WriteByte(table, s, b))
               /\ UNCHANGED detached

Seek(s, delta, whence) == /\ Open(s)
                          /\ Becomes(Fseek(table, s, delta, whence))
                          /\ UNCHANGED detached

(* USAGE: no -sbox; dotdot: a name with ".."; notopen: a FILE or handle     *)
(* that is not in use.                                                      *)
Stop == /\ status' \in {"USAGE", "dotdot", "notopen", "EXIT"}
        /\ UNCHANGED << table, detached >>

Next ==
  /\ status = "RUNNING"
  /\ \/ \E name \in Names, mode \in Modes, s \in Slots : Attach(name, mode, s)
     \/ \E s \in Files : Close(s) \/ Read(s)
     \/ \E s \in Files, b \in Byte \ {"nul"} : Write(s, b)
     \/ \E s \in Slots, delta \in {-1, 0}, whence \in 0 .. 3 :
          Seek(s, delta, whence)
     \/ Stop

Spec == Init /\ [][Next]_<< table, detached, status >>
==============================================================================
