------------------------------ MODULE MC_Codec ------------------------------
(* Model-checking instance of Codec.  The ints are the edges of           *)
(* append(int)'s ranges; string bodies are 'a' (0x61), as the ASCII names *)
(* and service states koi sends are.                                      *)
EXTENDS Codec

MC_Ints == {0, 15, 16, 255, 256, 65535, 65536, -1}
MC_Longs == {0, 300000}
MC_Fill == 97

(* The longest strings a list holds: a request's argument vector or a     *)
(* runner's service list in an rpc_status response, near the 4k a List    *)
(* header can say.                                                         *)
MC_LongStrLens == {0, 4093}

(* reads carries the refinement mapping MappedLists(data, stack) as a     *)
(* variable, so that TLC decodes the bytes once per state instead of once *)
(* per use of a primed expression.  It constrains nothing.                 *)
VARIABLE reads

MC_Init == Init /\ reads = MappedLists(data, stack)
MC_Next == Next /\ reads' = MappedLists(data', stack')
MC_Spec == MC_Init /\ [][MC_Next]_<<vars, reads>>

Archive == INSTANCE ArchiveSpec WITH lists <- reads, finished <- phase # "writing"

(* The byte-level writer implements the archive: every append, push, pop  *)
(* and done() of archive.hpp, read back through chunk_iterator, is a step  *)
(* of ArchiveSpec.  _pop_container's 12-bit size would break it at the pop *)
(* of a list of 4096 bytes or more.                                        *)
ArchiveImplemented == Archive!ASpec
====
