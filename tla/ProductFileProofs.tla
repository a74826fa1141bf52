------------------------- MODULE ProductFileProofs -------------------------
(***************************************************************************)
(* What the exchange takes for its products, for a file of any number of   *)
(* lines of any length.                                                    *)
(***************************************************************************)
EXTENDS ProductFile, TLAPS

Name(i) == [line |-> i + 1, length |-> Strlen(file[i + 1]) - 1]
Fine(i) == Passes(file[i]) /\ (i > 1 => ~ TooLong(file[i]))
WellFormed == (\A i \in 1 .. Len(file) : Fine(i)) /\ number = Len(file) - 1

\* Until it is refused, a file is read line by line, each line is fine, and
\* each but the first is a product.
ReadSoFar ==
  pc \in {"names", "accepted"} =>
    /\ \A i \in 1 .. read : Fine(i)
    /\ Len(products) = (IF file = <<>> THEN 0 ELSE read - 1)
    /\ \A i \in 1 .. Len(products) : products[i] = Name(i)
    /\ Len(products) <= numProducts

IInv ==
  /\ number \in Counts /\ numProducts \in Counts \cup {0}
  /\ pc \in {"count", "names", "accepted", "rejected"}
  /\ file \in Seq(Line) /\ read \in 0 .. Len(file)
  /\ products \in Seq([line : 2 .. Len(file), length : 0 .. MaxProd - 1])
  /\ pc = "count" => read = 0 /\ products = <<>>
  /\ pc # "count" /\ file # <<>> => numProducts = number /\ read >= 1
  /\ ReadSoFar
  /\ pc = "accepted" => read = Len(file) /\ Len(products) = numProducts
  /\ pc = "rejected" => /\ Len(products) <= numProducts + 1
                        /\ file # <<>> => ~ WellFormed

\* A line that is not refused has a name that fits with its terminator.
LEMMA NameFits ==
  ASSUME NEW l \in Line, ~ TooLong(l)
  PROVE  Strlen(l) - 1 \in 0 .. MaxProd - 1
<1>1. MaxProd \in Nat \ {0} /\ l.length \in Nat /\ (~ l.newline => l.length > 0)
  BY ProductFileAssumption DEF Line
<1> QED
  BY <1>1 DEF Strlen, TooLong

\* What is tested and kept of a line that ends in a newline is what it says.
LEMMA WholeLine ==
  ASSUME NEW l \in Line, l.newline
  PROVE  /\ l.wrong = "none" <=> Passes(l)
         /\ l.length = Strlen(l) - 1
         /\ l.length < MaxProd <=> ~ TooLong(l)
<1>1. MaxProd \in Nat \ {0} /\ l.length \in Nat
  BY ProductFileAssumption DEF Line
<1> QED
  BY <1>1 DEF Passes, Strlen, TooLong

\* Nothing has been read.
LEMMA InitInvariant == Init => IInv
<1> SUFFICES ASSUME Init PROVE IInv
  OBVIOUS
<1>1. file \in Seq(Line)
  BY ProductFileAssumption DEF Init, File
<1> QED
  BY <1>1 DEF Init, IInv, ReadSoFar

\* The first line.
LEMMA CountKeeps ==
  ASSUME IInv, Count
  PROVE  IInv'
<1>1. /\ UNCHANGED <<number, file, products>> /\ products = <<>> /\ file \in Seq(Line)
      /\ number \in Counts /\ Counts \subseteq Nat /\ pc' \in {"names", "rejected"}
      /\ file # <<>> => numProducts' = number
      /\ numProducts' \in Counts
      /\ read' = (IF file = <<>> THEN 0 ELSE 1)
      /\ file # <<>> => (pc' = "names" <=> Passes(file[1]))
  BY ProductFileAssumption DEF IInv, Count
<1>2. file # <<>> => Len(file) >= 1 /\ Len(file) \in Nat
  BY <1>1
<1>3. ReadSoFar'
  BY <1>1, <1>2 DEF ReadSoFar, Fine
<1>4. pc' = "rejected" /\ file # <<>> => ~ WellFormed'
  BY <1>1, <1>2 DEF WellFormed, Fine
<1>5. Len(products) = 0 /\ numProducts' \in Nat /\ read' \in 0 .. Len(file)
  BY <1>1, <1>2
<1>6. products' \in Seq([line : 2 .. Len(file'), length : 0 .. MaxProd - 1])
  BY <1>1 DEF IInv
<1>7. Len(products') <= numProducts' + 1
  <2>1. \A k \in Nat : 0 <= k + 1
    OBVIOUS
  <2>2. Len(products') = 0 /\ numProducts' \in Nat
    BY <1>1
  <2> QED
    BY <2>1, <2>2
<1>8. file # <<>> => read' >= 1
  BY <1>1
<1> QED
  BY <1>1, <1>3, <1>4, <1>5, <1>6, <1>7, <1>8 DEF IInv

\* A pass of the loop: a line that is refused spoils the file, one that is not
\* becomes the next product, and one product too many shows that the number
\* was wrong.
LEMMA NextNameKeeps ==
  ASSUME IInv, NextName
  PROVE  IInv'
<1> DEFINE l == file[read + 1]
           n == [line |-> read + 1, length |-> Strlen(l) - 1]
<1>1. /\ UNCHANGED <<number, file, numProducts>> /\ file \in Seq(Line) /\ pc = "names"
      /\ number \in Counts /\ numProducts \in Counts \cup {0} /\ Counts \subseteq Nat
      /\ read \in Nat /\ Len(file) \in Nat /\ read < Len(file) /\ read' = read + 1
  BY ProductFileAssumption, SMTT(30) DEF IInv, NextName
<1>2. file # <<>> /\ read >= 1 /\ numProducts = number /\ l \in Line
  BY <1>1 DEF IInv
<1>3. /\ \A i \in 1 .. read : Fine(i)
      /\ Len(products) = read - 1 /\ Len(products) <= number
      /\ \A i \in 1 .. Len(products) : products[i] = Name(i)
      /\ products \in Seq([line : 2 .. Len(file), length : 0 .. MaxProd - 1])
  BY <1>1, <1>2 DEF IInv, ReadSoFar
<1>4. CASE TooLong(l) \/ ~ Passes(l)
  <2>1. pc' = "rejected" /\ products' = products
    BY <1>1, <1>4 DEF NextName
  <2>2. ~ Fine(read + 1) /\ read + 1 \in 1 .. Len(file)
    BY <1>1, <1>2, <1>4 DEF Fine
  <2>3. ~ WellFormed'
    BY <1>1, <2>2 DEF WellFormed, Fine
  <2> QED
    BY <1>1, <1>2, <1>3, <2>1, <2>3 DEF IInv, ReadSoFar
<1>5. CASE ~ TooLong(l) /\ Passes(l)
  <2>1. /\ products' = Append(products, n)
        /\ pc' = IF Len(products') > numProducts THEN "rejected" ELSE "names"
    BY <1>1, <1>5 DEF NextName
  <2>2. n \in [line : 2 .. Len(file), length : 0 .. MaxProd - 1]
    BY <1>1, <1>2, <1>5, NameFits
  <2>3. n = Name(read) /\ Fine(read + 1)
    BY <1>5 DEF Name, Fine
  <2> HIDE DEF n, l
  <2>4. /\ products' \in Seq([line : 2 .. Len(file), length : 0 .. MaxProd - 1])
        /\ Len(products') = read
        /\ \A i \in 1 .. read : products'[i] = IF i = read THEN n ELSE products[i]
    BY <1>1, <1>2, <1>3, <2>1, <2>2
  <2>5. /\ \A i \in 1 .. read + 1 : Fine(i)'
        /\ \A i \in 1 .. read : products'[i] = Name(i)'
    <3>1. \A i \in 1 .. read + 1 : i \in 1 .. read \/ i = read + 1
      BY <1>1
    <3>2. \A i \in 1 .. read : i \in 1 .. Len(products) \/ i = read
      BY <1>1, <1>2, <1>3
    <3>3. \A i \in 1 .. read : products'[i] = Name(i)
      BY <1>3, <2>3, <2>4, <3>2
    <3> QED
      BY <1>1, <1>3, <2>3, <3>1, <3>3 DEF Fine, Name
  <2>6. ReadSoFar'
    BY <1>1, <1>2, <2>1, <2>4, <2>5 DEF ReadSoFar
  <2>7. pc' = "rejected" => ~ WellFormed'
    BY <1>1, <1>2, <2>1, <2>4 DEF WellFormed
  <2>8. Len(products') <= numProducts + 1
    BY <1>1, <1>2, <1>3, <2>4
  <2> QED
    BY <1>1, <1>2, <2>1, <2>4, <2>6, <2>7, <2>8 DEF IInv
<1> QED
  BY <1>4, <1>5

\* The end of the file.
LEMMA EndOfFileKeeps ==
  ASSUME IInv, EndOfFile
  PROVE  IInv'
<1>1. /\ UNCHANGED <<number, file, numProducts, read, products>> /\ pc = "names"
      /\ pc' = (IF Len(products) < numProducts THEN "rejected" ELSE "accepted")
      /\ read = Len(file) /\ Len(file) \in Nat /\ Counts \subseteq Nat
      /\ numProducts \in Counts \cup {0} /\ Len(products) <= numProducts
      /\ Len(products) = (IF file = <<>> THEN 0 ELSE read - 1)
      /\ file # <<>> => numProducts = number
  BY ProductFileAssumption DEF IInv, EndOfFile, ReadSoFar
<1>2. Len(products) \in Nat /\ numProducts \in Nat
  BY <1>1 DEF IInv
<1>3. ReadSoFar'
  BY <1>1 DEF IInv, ReadSoFar, Fine, Name
<1>4. pc' = "rejected" /\ file # <<>> => ~ WellFormed'
  BY <1>1, <1>2 DEF WellFormed
<1> QED
  BY <1>1, <1>2, <1>3, <1>4 DEF IInv
-----------------------------------------------------------------------------
\* The inductive invariant of the reading of a product file.
THEOREM FileInvariant == Spec => []IInv
<1>1. IInv /\ [Next]_vars => IInv'
  <2> SUFFICES ASSUME IInv, [Next]_vars PROVE IInv'
    OBVIOUS
  <2>1. CASE UNCHANGED vars
    BY <2>1 DEF IInv, ReadSoFar, WellFormed, Fine, Name, vars
  <2> QED
    BY <2>1, CountKeeps, NextNameKeeps, EndOfFileKeeps DEF Next
<1> QED
  BY InitInvariant, <1>1, PTL DEF Spec

\* Every name that is kept has room for its terminator.
THEOREM TypeCorrect == Spec => []TypeOK
<1>1. IInv => TypeOK
  <2> SUFFICES ASSUME IInv PROVE TypeOK
    OBVIOUS
  <2> DEFINE S == [line : 2 .. Len(file), length : 0 .. MaxProd - 1]
  <2>1. products \in Seq(S)
    BY DEF IInv
  <2>2. \A i \in DOMAIN products : products[i] \in S
    <3> HIDE DEF S
    <3> QED
      BY <2>1
  <2> QED
    BY <2>2 DEF IInv, TypeOK
<1> QED
  BY <1>1, FileInvariant, PTL

\* get_products writes at most one name behind its array, and then refuses the
\* file.
THEOREM OneBeyond == Spec => []OneBeyondAtMost
<1>1. IInv => OneBeyondAtMost
  <2> SUFFICES ASSUME IInv, pc # "count"
               PROVE  /\ Len(products) <= numProducts + 1
                      /\ Len(products) > numProducts => pc = "rejected"
    BY DEF OneBeyondAtMost
  <2>1. Len(products) \in Nat /\ numProducts \in Nat
    BY ProductFileAssumption DEF IInv
  <2> QED
    BY <2>1, SMTT(30) DEF IInv, ReadSoFar
<1> QED
  BY <1>1, FileInvariant, PTL

\* A file of whole lines is accepted exactly if it is well formed, and its
\* products are then the names it holds.
THEOREM FileReadAsWritten == Spec => []ReadAsWritten
<1>1. IInv => ReadAsWritten
  <2> SUFFICES ASSUME IInv, Terminated, pc \in {"accepted", "rejected"}
               PROVE  /\ pc = "accepted" <=>
                           /\ \A i \in DOMAIN file : file[i].wrong = "none"
                           /\ \A i \in 2 .. Len(file) : file[i].length < MaxProd
                           /\ number = Len(file) - 1
                      /\ pc = "accepted" => products = Names
    BY DEF ReadAsWritten
  <2>1. /\ file \in Seq(Line) /\ DOMAIN file = 1 .. Len(file) /\ Len(file) \in Nat
        /\ file # <<>> /\ \A i \in 1 .. Len(file) : file[i].newline
    BY DEF IInv, Terminated
  <2>2. \A i \in 1 .. Len(file) : /\ file[i].wrong = "none" <=> Passes(file[i])
                                  /\ file[i].length = Strlen(file[i]) - 1
                                  /\ file[i].length < MaxProd <=> ~ TooLong(file[i])
    BY <2>1, WholeLine
  <2>3. WellFormed <=> /\ \A i \in DOMAIN file : file[i].wrong = "none"
                       /\ \A i \in 2 .. Len(file) : file[i].length < MaxProd
                       /\ number = Len(file) - 1
    <3>1. \A i \in 2 .. Len(file) : i > 1 /\ i \in 1 .. Len(file)
      BY <2>1
    <3>2. \A i \in 1 .. Len(file) : i > 1 => i \in 2 .. Len(file)
      BY <2>1
    <3> QED
      BY <2>1, <2>2, <3>1, <3>2, Zenon DEF WellFormed, Fine
  <2>4. ASSUME pc = "accepted" PROVE WellFormed /\ products = Names
    <3>1. /\ \A i \in 1 .. Len(file) : Fine(i)
          /\ Len(products) = Len(file) - 1 /\ Len(products) = number
          /\ \A i \in 1 .. Len(products) : products[i] = Name(i)
          /\ products = [i \in 1 .. Len(products) |-> products[i]]
      BY <2>1, <2>4 DEF IInv, ReadSoFar
    <3>2. \A i \in 1 .. Len(file) - 1 :
            products[i] = [line |-> i + 1, length |-> file[i + 1].length]
      BY <2>1, <2>2, <3>1 DEF Name
    <3> QED
      BY <3>1, <3>2 DEF WellFormed, Names
  <2> QED
    BY <2>1, <2>3, <2>4 DEF IInv
<1> QED
  BY <1>1, FileInvariant, PTL
=============================================================================
