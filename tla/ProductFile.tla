----------------------------- MODULE ProductFile -----------------------------
(***************************************************************************)
(* get_num_products and get_products: what the exchange takes for its      *)
(* products, for any small file.                                           *)
(*                                                                         *)
(* Of a line matter its length without the newline, whether it has one     *)
(* (only the last line may lack it), and where its first wrong character   *)
(* is: a non-digit in the first line, a non-alphanumeric in the others.    *)
(* A name is the number of its line and how many characters are kept.      *)
(***************************************************************************)
EXTENDS Integers, Sequences, SequencesExt

CONSTANTS
  MaxProd,     \* MAX_PROD, the size of a name with its terminator
  Counts,      \* the numbers that first lines give
  MaxLength,   \* bound: length of a line; a line fits in MAX_LINE
  MaxLines     \* bound: lines of a file

ASSUME ProductFileAssumption ==
  MaxProd \in Nat \ {0} /\ Counts \subseteq Nat /\ {MaxLength, MaxLines} \subseteq Nat

VARIABLES
  number,        \* what the first line says
  file,          \* the lines, the first one too
  pc,            \* "count", "names", "accepted" or "rejected"
  numProducts,   \* num_products
  read,          \* lines read by get_products
  products       \* what has been written to valid_products

vars == <<number, file, pc, numProducts, read, products>>

Line == {l \in [length : 0 .. MaxLength, wrong : {"none", "inside", "last"}, newline : BOOLEAN] :
           /\ l.wrong = "last" => l.length > 0
           /\ l.wrong = "inside" => l.length > 1
           /\ ~ l.newline => l.length > 0}
File == {f \in UNION {[1 .. n -> Line] : n \in 0 .. MaxLines} :
           \A i \in DOMAIN f : i < Len(f) => f[i].newline}
-----------------------------------------------------------------------------
Strlen(l) == IF l.newline THEN l.length + 1 ELSE l.length

\* is_num and is_alphanumeric: every character but the last, which is taken for
\* the newline.
Passes(l) == l.wrong = "none" \/ (l.wrong = "last" /\ ~ l.newline)

\* Mutant: the terminator of the name is counted twice.
TooLongSooner(l) == Strlen(l) >= MaxProd

\* Mutant: the terminator of the name is not counted.
TooLongLater(l) == Strlen(l) > MaxProd + 1

TooLong(l) == Strlen(l) > MaxProd

\* get_num_products, and the first line again in get_products.  The line of an
\* empty file is uninitialised: it may pass for any number, or be refused.
Count ==
  /\ pc = "count"
  /\ numProducts' \in IF file = <<>> THEN Counts ELSE {number}
  /\ \/ /\ file # <<>> => Passes(file[1])
        /\ pc' = "names"
     \/ /\ file # <<>> => ~ Passes(file[1])
        /\ pc' = "rejected"
  /\ read' = IF file = <<>> THEN 0 ELSE 1
  /\ UNCHANGED <<number, file, products>>

\* Mutant: the count is not compared before the end of the file.
NextNameUncounted ==
  /\ pc = "names" /\ read < Len(file)
  /\ read' = read + 1
  /\ LET l == file[read']
     IN  IF TooLong(l) \/ ~ Passes(l)
         THEN pc' = "rejected" /\ UNCHANGED products
         ELSE products' = Append(products, [line |-> read', length |-> Strlen(l) - 1]) /\ pc' = pc
  /\ UNCHANGED <<number, file, numProducts>>

\* One pass of the loop of get_products; the last character is cut off.
NextName ==
  /\ pc = "names" /\ read < Len(file)
  /\ read' = read + 1
  /\ LET l == file[read']
     IN  IF TooLong(l) \/ ~ Passes(l)
         THEN pc' = "rejected" /\ UNCHANGED products
         ELSE /\ products' = Append(products, [line |-> read', length |-> Strlen(l) - 1])
              /\ pc' = IF Len(products') > numProducts THEN "rejected" ELSE "names"
  /\ UNCHANGED <<number, file, numProducts>>

EndOfFile ==
  /\ pc = "names" /\ read = Len(file)
  /\ pc' = IF Len(products) < numProducts THEN "rejected" ELSE "accepted"
  /\ UNCHANGED <<number, file, numProducts, read, products>>

\* atoi finds 0 where there is no digit.
Init ==
  /\ number \in Counts /\ file \in File
  /\ file # <<>> /\ file[1].length = (IF file[1].wrong = "last" THEN 1 ELSE 0) => number = 0
  /\ pc = "count" /\ numProducts = 0 /\ read = 0 /\ products = <<>>

Next == Count \/ NextName \/ EndOfFile

Spec == Init /\ [][Next]_vars
-----------------------------------------------------------------------------
(* Properties *)

\* The shape of the state.
TypeOK ==
  /\ number \in Counts /\ numProducts \in Counts \cup {0}
  /\ pc \in {"count", "names", "accepted", "rejected"}
  /\ file \in Seq(Line) /\ read \in 0 .. Len(file)
  /\ \A i \in DOMAIN products : products[i] \in [line : 2 .. Len(file), length : 0 .. MaxProd - 1]

Names == [i \in 1 .. Len(file) - 1 |-> [line |-> i + 1, length |-> file[i + 1].length]]

Terminated == file # <<>> /\ \A i \in DOMAIN file : file[i].newline

\* A file whose lines all end in a newline is accepted exactly if its first line
\* is a number, that many lines follow, and each is a name that fits with its
\* terminator; blank lines count as names.  The names are then those of the
\* file, each whole.  (A last line without a newline loses a character to
\* NextName: nothing is claimed of it.)
ReadAsWritten ==
  LET wellFormed ==
        /\ \A i \in DOMAIN file : file[i].wrong = "none"
        /\ \A i \in 2 .. Len(file) : file[i].length < MaxProd
        /\ number = Len(file) - 1
  IN  Terminated /\ pc \in {"accepted", "rejected"} =>
        /\ pc = "accepted" <=> wellFormed
        /\ pc = "accepted" => products = Names

\* The array has room for num_products names.  One more may be written behind
\* its end, never two, and the exchange then refuses to start.
OneBeyondAtMost ==
  pc # "count" => /\ Len(products) <= numProducts + 1
                  /\ Len(products) > numProducts => pc = "rejected"
=============================================================================
