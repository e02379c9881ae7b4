---------------------------- MODULE FileIOAsStdio ----------------------------
(***************************************************************************)
(* The mapping from FileIO to Stdio: a FILE stands for the file of its      *)
(* handle, a standard stream for itself, also when its FILE was closed.     *)
(***************************************************************************)
EXTENDS FileIO

TableOf(h, hdl) ==
  [files |-> [s \in Files |-> IF s \in StdHandles THEN h.files[s]
                              ELSE IF hdl[s] = 0 THEN ClosedFile
                              ELSE h.files[hdl[s]]],
   data  |-> h.data]

Table == TableOf(host, handle)

Detached == {s \in StdHandles : handle[s] = 0}

S == INSTANCE Stdio WITH table <- Table, detached <- Detached

(* fileio.c and host.c together are stdio with one table: each of their     *)
(* steps is one of Stdio's or changes nothing that a program sees, and the  *)
(* host's table never fills up.                                             *)
ImplementsStdio == S!Spec
==============================================================================
