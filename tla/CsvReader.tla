------------------------------ MODULE CsvReader ------------------------------
(***************************************************************************)
(* CsvReader (src/infrastructure/csv_reader.rs): each call of next takes   *)
(* one record of the file and turns its four columns into a message.  A    *)
(* caller may go on after an error, and may call again after the end;      *)
(* load_file does neither.                                                 *)
(*                                                                         *)
(* The splitting and trimming of lines is the CSV library's.  A record it  *)
(* refuses is Unreadable, or has a column that is Absent.                  *)
(***************************************************************************)
EXTENDS Amount

CONSTANTS
  Files,              \* the files: sequences of records
  Unreadable,         \* a record that is not text, or of another length than the first
  Absent,             \* a column that the file does not have
  ClientBits,         \* ClientId is a u16
  TransactionBits     \* TransactionId is a u32

ASSUME BitsAssumption == ClientBits \in Nat /\ TransactionBits \in Nat

(* A column is a text, which is a sequence of characters, but for the      *)
(* type, which is only looked up.                                          *)
IsRecord(raw) ==
  \/ raw = Unreadable
  \/ /\ DOMAIN raw = {"type", "client", "tx", "amount"}
     /\ \A column \in {"client", "tx", "amount"} :
          raw[column] = Absent \/ raw[column] \in Seq(STRING)

ASSUME FilesAssumption ==
  \A records \in Files :
    Len(records) \in Nat /\ \A i \in 1 .. Len(records) : IsRecord(records[i])

VARIABLES
  file,
  chrono_order,   \* the number of messages yielded so far
  done,           \* was the end of the file seen?
  results,        \* what next returned for each record, {} for an error
  rows_parsed     \* the counter METRICS.csv_rows_parsed

vars == <<file, chrono_order, done, results, rows_parsed>>

Init ==
  /\ file \in Files
  /\ chrono_order = 0
  /\ done = FALSE
  /\ results = <<>>
  /\ rows_parsed = 0

-----------------------------------------------------------------------------
TypeNamed ==
  [ deposit    |-> "Deposit",
    withdrawal |-> "Withdrawal",
    dispute    |-> "Dispute",
    resolve    |-> "Resolve",
    chargeback |-> "Chargeback" ]

(* TransactionType::from_str: lower case only.                             *)
FromStr(s) == {TypeNamed[name] : name \in {s} \cap DOMAIN TypeNamed}

(* Faulty variant: a value that is too large loses its high bits.          *)
ParseUnsignedCast(s, bits) ==
  {Number(ds) % 2 ^ bits :
     ds \in {x \in {Unsigned(s)} : x # <<>> /\ AllDigits(x) /\ Sign(s) = 1}}

(* str::parse of an unsigned integer: a plus sign is allowed, a minus sign *)
(* is not, and the value has to fit.                                       *)
ParseUnsigned(s, bits) ==
  {Number(ds) :
     ds \in {x \in {Unsigned(s)} :
               x # <<>> /\ AllDigits(x) /\ Sign(s) = 1 /\ Number(x) < 2 ^ bits}}

(* An empty amount is zero, for every type of row.                         *)
FieldAmount(s) == IF s = <<>> THEN {0} ELSE Parse(s)

(* All four columns of RawInputMessage are required.                       *)
Deserialized(record) ==
  {raw \in {record} :
     raw # Unreadable /\ \A column \in DOMAIN raw : raw[column] # Absent}

(* What next makes of a record: a message if every column is accepted.     *)
Message(record) ==
  UNION {
    { [ chrono_order |-> chrono_order, transaction_type |-> type, client_id |-> client,
        transaction_id |-> tx, amount |-> amount ] :
        type \in FromStr(raw.type),
        client \in ParseUnsigned(raw.client, ClientBits),
        tx \in ParseUnsigned(raw.tx, TransactionBits),
        amount \in FieldAmount(raw.amount) } : raw \in Deserialized(record) }

(* Faulty variant: a row that is refused takes a number too.               *)
NumberAfterAny(message) == chrono_order + 1

NumberAfter(message) == IF message = {} THEN chrono_order ELSE chrono_order + 1

NextRecord ==
  /\ ~ done /\ Len(results) < Len(file)
  /\ LET message == Message(file[Len(results) + 1]) IN
     /\ results' = Append(results, message)
     /\ chrono_order' = NumberAfter(message)
  /\ UNCHANGED <<file, done, rows_parsed>>

(* The end of the file: None, and the rows are counted.                    *)
NextEnd ==
  /\ ~ done /\ Len(results) = Len(file)
  /\ done' = TRUE
  /\ rows_parsed' = rows_parsed + chrono_order
  /\ UNCHANGED <<file, chrono_order, results>>

(* None, once more.                                                        *)
NextDone == done /\ UNCHANGED vars

Spec == Init /\ [][NextRecord \/ NextEnd \/ NextDone]_vars

-----------------------------------------------------------------------------
(***************************************************************************)
(* Properties.                                                             *)
(***************************************************************************)

TypeOK ==
  /\ done \in BOOLEAN
  /\ \A i \in DOMAIN results :
       /\ Cardinality(results[i]) <= 1
       /\ \A m \in results[i] :
            /\ m.chrono_order \in 0 .. chrono_order - 1
            /\ m.client_id \in 0 .. 2 ^ ClientBits - 1
            /\ m.transaction_id \in 0 .. 2 ^ TransactionBits - 1
            /\ m.amount \in Machine

(* Are the columns of a record other than the amount there, and in order?  *)
Identified(raw) ==
  /\ \A column \in {"type", "client", "tx"} : raw[column] # Absent
  /\ FromStr(raw.type) # {}
  /\ ParseUnsigned(raw.client, ClientBits) # {}
  /\ ParseUnsigned(raw.tx, TransactionBits) # {}

(* The records that were read and whose amount is a numeral, of which the  *)
(* other columns are in order.                                             *)
Numerals ==
  {i \in DOMAIN results :
     Deserialized(file[i]) # {} /\ IsNumeral(file[i].amount) /\ Identified(file[i])}

AmountOf(i) == {m.amount : m \in results[i]}

(* A numeral is read exactly, up to the truncation of further decimals,    *)
(* and refused only when it does not fit ("truncated (not rounded)",       *)
(* README.md, Amount precision).                                           *)
NumeralsAreExact == \A i \in Numerals : AmountOf(i) = {Scaled(file[i].amount)} \cap Machine

(* An amount that was read can be printed and read again without a change  *)
(* ("4-decimal-place amounts survive CSV round-trip exactly", README.md).  *)
RoundTrip == \A i \in DOMAIN results : \A n \in AmountOf(i) : Parse(Display(n)) = {n}

(* A numeral without its sign and its leading zeros.                       *)
Stripped(s) ==
  LET u == Unsigned(s)
      zeros == {n \in 0 .. Len(u) : \A k \in 1 .. n : u[k] = "0"}
  IN  SubSeq(u, 1 + CHOOSE n \in zeros : \A m \in zeros : m <= n, Len(u))

(* Two rows name the same client only if they name the same number, and so *)
(* for transactions: no identifier that is too large, and no negative one, *)
(* is taken for another.                                                   *)
NoAliases ==
  \A i, j \in DOMAIN results : \A m \in results[i], n \in results[j] :
    /\ m.client_id = n.client_id <=> Stripped(file[i].client) = Stripped(file[j].client)
    /\ m.transaction_id = n.transaction_id <=> Stripped(file[i].tx) = Stripped(file[j].tx)

(* Messages are numbered from zero in the order of the file, without a gap *)
(* for the rows that were refused; rows_parsed is what was yielded in all, *)
(* counted once and only when the file has been read to its end.           *)
RowsAreNumbered ==
  LET yielded == {i \in DOMAIN results : results[i] # {}} IN
  /\ \A i \in yielded : \A m \in results[i] :
       m.chrono_order = Cardinality({j \in yielded : j < i})
  /\ rows_parsed = IF done THEN Cardinality(yielded) ELSE 0

(* "Internally stores value x 10^4" (the doc of Amount), for what parse    *)
(* accepted: in a release build the product may have wrapped.              *)
StoresScaledValue == \A i \in Numerals : \A n \in AmountOf(i) : n = Scaled(file[i].amount)

(* "An empty or absent amount is treated as zero" (README.md, Input        *)
(* handling), in a row of which the other columns are in order.            *)
EmptyOrAbsentIsZero ==
  \A i \in DOMAIN results :
    /\ file[i] # Unreadable
    /\ Identified(file[i])
    /\ file[i].amount \in {<<>>, Absent}
    => AmountOf(i) = {0}

=============================================================================
