---------------------------- MODULE MCFileCache ----------------------------
(* Small instances of FileCache. *)
EXTENDS FileCache, TLC

CONSTANTS a, b, c, d

(* c is as large as the whole cache of two, d is larger.                    *)
MCSizeOf == (a :> 1) @@ (b :> 1) @@ (c :> 2) @@ (d :> 3)

(* hash_key gives 5381 modulo the size to every name, when its c starts     *)
(* beyond the name, and other values as c is smaller: here slot 0, and one  *)
(* more that depends on the length of the name; those of a and b are equal. *)
MCPlaces == (a :> {0, 1}) @@ (b :> {0, 1}) @@ (c :> {0, 2}) @@ (d :> {0})

(* As if c always started beyond the name: every search starts at one slot. *)
MCOnePlace == [f \in File |-> {0}]

SymmetricWorkers == Permutations(Worker)
=============================================================================
