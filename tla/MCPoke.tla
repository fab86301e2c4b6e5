------------------------------- MODULE MCPoke ------------------------------
(* Strings of one word and a part, of a part, and of words only; a token   *)
(* that fits, one that just does not, and none.                            *)
EXTENDS Poke

MCPath == <<1, 2, 3, 4, 5>>
MCFuncName == <<6, 7>>
MCTokens == {<<>>, <<1, 2, 3, 4, 5, 6, 7>>, <<8, 7, 6, 5, 4, 3, 2, 1>>}

Line(start, path) == [start |-> start, path |-> path]
MCMaps ==
  [self   |-> <<Line(16, "bootstrap"), Line(200, "libc.so"), Line(210, "libc.so"), Line(220, "linker")>>,
   zygote |-> <<Line(150, "linker"), Line(158, "linker"), Line(180, "libc.so"), Line(188, "libc.so")>>]
MCLocal ==
  [f \in {"mmap", "__errno", "dlopen", "dlerror", "dlsym"} |->
     CASE f = "mmap" -> 205 [] f = "__errno" -> 202 [] f = "dlopen" -> 221
       [] f = "dlerror" -> 224 [] f = "dlsym" -> 227]
=============================================================================
