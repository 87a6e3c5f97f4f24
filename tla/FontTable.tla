----------------------------- MODULE FontTable ------------------------------
(***************************************************************************)
(* fonts/find_system_fonts.py: the firmware image is read word by word,    *)
(* in search of its table of resource names.  An item of the table is a    *)
(* pointer to a name followed by a resource id; anything else that looks   *)
(* like an item is another, smaller table.                                 *)
(*                                                                         *)
(* A word is [name, id]: the RESOURCE_ID name it points to (NoName for     *)
(* most words), and its lower 16 bits.  A name is a sequence of its parts. *)
(***************************************************************************)
EXTENDS Integers, Sequences, FiniteSets

CONSTANT Images  \* the firmware images, as sequences of words

ASSUME ImagesAssumption == \A w \in Images : w \in Seq({w[i] : i \in DOMAIN w})

VARIABLES
  words,
  scanned,      \* number of words read
  since_last,   \* words since the last item; more than 2 are not told apart
  work_table,
  final_table,
  same_table    \* final_table and work_table are one dictionary

table_vars == <<words, scanned, since_last, work_table, final_table, same_table>>

NoName == << >>
NoTable == << >>

Size(table) == Cardinality(DOMAIN table)

\* work_table[name] = id
put(table, name, id) ==
  [n \in DOMAIN table \union {name} |-> IF n = name THEN id ELSE table[n]]

TableInit ==
  /\ words \in Images
  /\ scanned = 0 /\ since_last = 0
  /\ work_table = NoTable /\ final_table = NoTable /\ same_table = FALSE

\* The state of the loop after its first if.
last_word == IF scanned = 0 THEN [name |-> NoName, id |-> 0] ELSE words[scanned]
word == words[scanned + 1]
is_item == last_word.name # NoName
since == IF is_item THEN 0 ELSE IF since_last < 3 THEN since_last + 1 ELSE 3
work == IF is_item THEN put(work_table, last_word.name, word.id) ELSE work_table
final == IF same_table THEN work ELSE final_table

\* Mutant: an item directly follows the last one.
left_early == since > 1

left_table == since > 2

LeaveTable ==
  /\ left_table
  /\ work_table' = NoTable /\ final_table' = final /\ same_table' = FALSE

BestTable ==
  /\ ~left_table /\ Size(work) > Size(final)
  /\ work_table' = work /\ final_table' = work /\ same_table' = TRUE

OtherTable ==
  /\ ~left_table /\ Size(work) <= Size(final)
  /\ work_table' = work /\ final_table' = final
  /\ UNCHANGED same_table

ScanWord ==
  /\ scanned < Len(words)
  /\ LeaveTable \/ BestTable \/ OtherTable
  /\ scanned' = scanned + 1 /\ since_last' = since
  /\ UNCHANGED words

TableSpec == TableInit /\ [][ScanWord]_table_vars

-----------------------------------------------------------------------------
(* The reference: items at most three words apart are of one table.        *)

Items(w) == { i \in 2 .. Len(w) : w[i - 1].name # NoName }
Tables(w) ==
  { t \in SUBSET Items(w) :
      /\ t # {}
      /\ \A i \in t : \A j \in Items(w) : (j - i \in -3 .. 3) => j \in t
      /\ \A i, j \in t : i < j => \E k \in t : k - i \in 1 .. 3 }

Names(w, t) == { w[i - 1].name : i \in t }
LastItem(w, t, n) == CHOOSE i \in t : w[i - 1].name = n /\ \A j \in t : w[j - 1].name = n => j <= i
Dictionary(w, t) == [n \in Names(w, t) |-> w[LastItem(w, t, n)].id]

\* The first of the largest tables.
IsLargest(w, t) ==
  /\ t \in Tables(w)
  /\ \A u \in Tables(w) \ {t} :
       \/ Cardinality(Names(w, u)) < Cardinality(Names(w, t))
       \/ Cardinality(Names(w, u)) = Cardinality(Names(w, t)) /\ \A i \in t, j \in u : i < j

\* The scan ends with the largest of the tables in the image, complete: although
\* the dictionary that is kept goes on growing through its second name, and is
\* given up for a later table only when that has become larger.
LargestTable ==
  (words # << >> /\ scanned = Len(words)) =>
    IF Tables(words) = {} THEN final_table = NoTable
    ELSE \E t \in Tables(words) : IsLargest(words, t) /\ final_table = Dictionary(words, t)

=============================================================================
