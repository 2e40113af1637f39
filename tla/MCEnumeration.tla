---------------------------- MODULE MCEnumeration ----------------------------
(* Enumeration with two threads, which are alike, and modules of which two  *)
(* register the same driver.                                                *)
EXTENDS Enumeration, TLC

SomePaths == <<"rtl1", "rtl2", "old", "remote">>
SomeDriver == "rtl1" :> "rtlsdr" @@ "rtl2" :> "rtlsdr" @@ "old" :> "remote" @@ "remote" :> "remote"

ThreadsAlike == Permutations(Threads)
===============================================================================
