--------------------------- MODULE MCTracedProgram ---------------------------
EXTENDS TracedProgram

AllRegions == {"vectors", "init", "main", "f", "g", "__h", "exit", "setjmp",
               "longjmp", "__tablejump2__", "__prologue_saves__",
               "__epilogue_restores__", "anon"}

Options == [base |-> {}, leaf |-> {}, sub |-> {}, skip |-> {}, reserved |-> FALSE]

Program == [kinds |-> {}, calls |-> {<<"init", "main">>}, tails |-> {},
            follows |-> {}, saving |-> {}, insns |-> 10, opt |-> Options]

(* Calls, recursion and tail calls of every kind.                           *)
Recursive ==
  [Program EXCEPT !.kinds = {"CALL", "RET", "JMP", "IJMP", "pushret", "push"},
     !.calls = @ \cup {<<"main", "f">>, <<"f", "f">>, <<"f", "g">>},
     !.tails = {<<"f", "g">>, <<"f", "f">>}]

Switching ==
  [Program EXCEPT !.kinds = {"CALL", "RET", "JMP", "switch", "alloc", "args"},
     !.calls = @ \cup {<<"main", "f">>},
     !.tails = {<<"f", "g">>}, !.insns = 13]

Jumping ==
  [Program EXCEPT !.kinds = {"CALL", "RET", "longjmp", "builtin"},
     !.calls = @ \cup {<<"main", "setjmp">>, <<"main", "f">>, <<"f", "g">>}, !.insns = 18]

Crashing ==
  [Program EXCEPT !.kinds = {"CALL", "RET", "push", "bad jmp_buf"},
     !.calls = @ \cup {<<"main", "f">>, <<"f", "f">>}]

Saving ==
  [Program EXCEPT !.kinds = {"CALL", "RET", "prologue", "push"},
     !.calls = @ \cup {<<"main", "f">>, <<"f", "g">>},
     !.saving = {"f"}, !.insns = 13]

Exiting ==
  [Program EXCEPT !.kinds = {"CALL", "ICALL", "RET", "RETI", "exit", "JMP", "work", "fall"},
     !.calls = @ \cup {<<"main", "f">>, <<"exit", "anon">>},
     !.tails = {<<"main", "f">>, <<"main", "g">>, <<"init", "exit">>,
                <<"f", "g">>, <<"f", "exit">>, <<"g", "exit">>},
     !.follows = {<<"exit", "g">>}, !.insns = 12]

(* Constructors: the startup code calls __tablejump2__, which jumps to them. *)
Starting ==
  [Program EXCEPT !.kinds = {"CALL", "RET", "IJMP", "fall", "exit"},
     !.calls = @ \cup {<<"init", "__tablejump2__">>, <<"f", "g">>},
     !.tails = {<<"__tablejump2__", "f">>, <<"init", "exit">>},
     !.follows = {<<"f", "__h">>, <<"init", "anon">>}, !.insns = 16]

Costs(opt) ==
  [Program EXCEPT !.kinds = {"CALL", "RET", "JMP", "work"},
     !.calls = @ \cup {<<"main", "f">>, <<"f", "__h">>, <<"__h", "g">>, <<"g", "f">>},
     !.opt = opt, !.insns = 11]

(* A call with arguments on the stack, then a call by a function pointer.   *)
Indirect ==
  [Program EXCEPT !.kinds = {"CALL", "ICALL", "RET", "push", "args", "glitchcall"},
     !.calls = @ \cup {<<"main", "f">>, <<"f", "g">>}, !.insns = 13]

IndirectOnly == {Indirect}

AllPrograms ==
  {Recursive, Switching, Jumping, Saving, Exiting, Starting, Crashing}
  \cup {Costs([Options EXCEPT !.base = b, !.leaf = l, !.skip = k, !.sub = s]) :
          b \in {{}, {"f"}}, l \in {{}, {Entry("g")}, {Entry("f")}},
          k \in {{}, {Entry("f")}}, s \in {{}, {Entry("f")}}}
=============================================================================
