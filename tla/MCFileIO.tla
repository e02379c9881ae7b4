------------------------------ MODULE MCFileIO ------------------------------
(* Instances of FileIO: three strings at three addresses, the same ones in  *)
(* RAM and, one address further, in flash.                                  *)
EXTENDS FileIOAsStdio

AFewNames == {"one", "two", "..up"}
UpName == {"..up"}
ThreeAddrs == 1 .. 3
TextInRam   == [a \in ThreeAddrs |-> CASE a = 1 -> "one" [] a = 2 -> "two"
                                       [] a = 3 -> "..up"]
TextInFlash == [a \in ThreeAddrs |-> CASE a = 1 -> "two" [] a = 2 -> "one"
                                       [] a = 3 -> "..up"]
TwoStd == {-2, -1}

StdinOnly == {-1}
=============================================================================
