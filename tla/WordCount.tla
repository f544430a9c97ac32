------------------------------ MODULE WordCount ------------------------------
(***************************************************************************)
(* wc.c: the words of a text are counted in a hash table without wrap-      *)
(* around.  A text is a sequence of words and Space; one word is one item,  *)
(* and two of them have a Space between them.  The array of the slots is    *)
(* not initialised: it is taken to be zero, the second block of a new heap. *)
(***************************************************************************)
EXTENDS Integers, SequencesExt

CONSTANTS Words,    \* the words of the texts
          Space,    \* one character for which isspace holds
          Junk,     \* what the stack held, if it is none of the words
          Longer,   \* for each word those that begin with it
          MaxText,  \* the length of the texts
          MaxHash   \* the hash values before % size are 0 .. MaxHash

ASSUME WordAssumption ==
  /\ MaxText \in Nat /\ MaxHash \in Nat
  /\ Space \notin Words /\ Junk \notin Words \cup {Space}
  /\ Longer \in [Words -> SUBSET Words]

VARIABLES
  text,    \* word_array
  hash,    \* hash_key, before % size
  phase,   \* "scan" "output" "destroy" "done"
  at,      \* i: the next item of text, the next slot
  str,     \* the word before at, Space if it is empty
  first,   \* what str reads as at the first space of text
  size, items,  \* struct wc
  printed  \* wc_output, so far

wcVars == <<text, hash, phase, at, str, first, size, items, printed>>

NULL == [word |-> Space, occurrence |-> 0]

Texts ==
  {t \in BoundedSeq(Words \cup {Space}, MaxText) :
     \A i \in 1 .. Len(t) - 1 : t[i] = Space \/ t[i + 1] = Space}

(* A word is counted at the space before it, and one for the end.           *)
CountWords(t) ==
  Cardinality({i \in 1 .. Len(t) : i = Len(t) \/ (t[i] = Space /\ t[i + 1] # Space)})

(* str is not initialised, and letters are written over what it held: the   *)
(* first word may come out with a rest behind it, perhaps as another word of *)
(* the text, and a space that comes first may find any word in str.         *)
FirstReads(t) ==
  IF t # <<>> /\ t[1] # Space
    THEN {t[1], Junk} \cup Longer[t[1]]
    ELSE Words \cup {Space, Junk}

WcInit ==
  /\ text \in Texts
  /\ hash \in [Words \cup {Junk} -> 0 .. MaxHash]
  /\ phase = "scan" /\ at = 1
  /\ first \in FirstReads(text)
  /\ str = first
  /\ size = CountWords(text)
  /\ items = [i \in 0 .. size - 1 |-> NULL]
  /\ printed = <<>>

hash_key(w) == hash[w] % size

(* Mutant: no other slot than its own is tried. *)
InsertWordMutant(w) ==
  IF items[hash_key(w)] = NULL \/ items[hash_key(w)].word = w
    THEN items' = [items EXCEPT ![hash_key(w)] = [word |-> w, occurrence |-> @.occurrence + 1]]
    ELSE UNCHANGED items

(* From its slot up to the end: the first that is free or has the word.     *)
insert_word(w) ==
  LET fits == {i \in hash_key(w) .. size - 1 : items[i] = NULL \/ items[i].word = w}
      slot == CHOOSE i \in fits : \A j \in fits : i <= j
  IN IF fits = {}
       THEN UNCHANGED items
       ELSE items' = [items EXCEPT ![slot] = [word |-> w, occurrence |-> @.occurrence + 1]]

ScanWord ==
  /\ phase = "scan" /\ at <= Len(text) /\ text[at] # Space
  /\ str' = IF at = 1 THEN first ELSE text[at]
  /\ at' = at + 1
  /\ UNCHANGED <<text, hash, phase, first, size, items, printed>>

(* Mutant: str is not cleared behind a word. *)
ScanSpaceMutant ==
  /\ phase = "scan" /\ at <= Len(text) /\ text[at] = Space
  /\ IF str # Space THEN insert_word(str) ELSE UNCHANGED items
  /\ at' = at + 1
  /\ UNCHANGED <<text, hash, phase, str, first, size, printed>>

ScanSpace ==
  /\ phase = "scan" /\ at <= Len(text) /\ text[at] = Space
  /\ IF str # Space THEN insert_word(str) ELSE UNCHANGED items
  /\ str' = Space
  /\ at' = at + 1
  /\ UNCHANGED <<text, hash, phase, first, size, printed>>

(* The end of wc_init: the word that the text ends with stays in str.       *)
ScanEnds ==
  /\ phase = "scan" /\ at > Len(text)
  /\ phase' = "output" /\ at' = 0
  /\ UNCHANGED <<text, hash, str, first, size, items, printed>>

wc_output ==
  /\ phase = "output"
  /\ IF at < size
       THEN /\ at' = at + 1
            /\ printed' = IF items[at] = NULL THEN printed ELSE Append(printed, items[at])
            /\ UNCHANGED phase
       ELSE phase' = "destroy" /\ at' = 0 /\ UNCHANGED printed
  /\ UNCHANGED <<text, hash, str, first, size, items>>

(* The array of the slots itself is not freed. *)
wc_destroy ==
  /\ phase = "destroy"
  /\ IF at < size
       THEN items' = [items EXCEPT ![at] = NULL] /\ at' = at + 1 /\ UNCHANGED phase
       ELSE phase' = "done" /\ UNCHANGED <<items, at>>
  /\ UNCHANGED <<text, hash, str, first, size, printed>>

WcNext == ScanWord \/ ScanSpace \/ ScanEnds \/ wc_output \/ wc_destroy

WcSpec == WcInit /\ [][WcNext]_wcVars

-----------------------------------------------------------------------------

(* How often str was w at a space before item n: once for each item that is *)
(* w and has a space behind it, but for the item at the first space, which  *)
(* is whatever str held.                                                    *)
Inserted(w, n) ==
  LET firstIsRead == n > 2 \/ (n = 2 /\ text[1] = Space)
  IN Cardinality({i \in 2 .. n - 2 : text[i] = w})
     + (IF first = w /\ firstIsRead THEN 1 ELSE 0)

(* Whatever is printed is printed once, and with the number of times str was *)
(* found to hold it, for every hash function and whatever the stack held.   *)
(* wc.h:20-22 asks for more, a count of every time a word has been seen: the *)
(* word that a text ends with stays in str, so "a b a" prints a:1.          *)
OutputIsExact ==
  phase \in {"destroy", "done"} =>
    \A i \in DOMAIN printed :
      LET w == printed[i].word
      IN /\ \A j \in DOMAIN printed : printed[j].word = w => j = i
         /\ printed[i].occurrence = Inserted(w, Len(text) + 1)

(* The table has room for every word, and yet a word may find none: but only *)
(* if others have taken all slots from its own to the last one.             *)
LostOnlyWhenFull ==
  phase = "scan" =>
    \A w \in Words :
      Inserted(w, at) > 0 /\ (\A i \in DOMAIN items : items[i].word # w)
        => \A i \in hash_key(w) .. size - 1 : items[i] # NULL

=============================================================================
