--------------------------------- MODULE Candle --------------------------------
(***************************************************************************)
(* src/src/candle.rs: reading candles out of Coinbase's response body.     *)
(*                                                                         *)
(* A body that is JSON is <<"candles", rows>> when it holds a candles      *)
(* array and <<"other">> when it does not.  A row is <<"object", o>>, with *)
(* o a function from the field names present to JSON values, or            *)
(* <<"scalar">>.  A JSON value is <<"number", n>> or <<"string", n>> when  *)
(* it reads as the finite number n, <<"text">> when it is a non-blank text *)
(* that does not, and <<"other">> for a blank text or any other kind.      *)
(***************************************************************************)
EXTENDS ProofFormat, FiniteSets

FieldOrder == <<"start", "low", "high", "open", "close", "volume">>
PriceFields == {"low", "high", "open", "close"}

is_numeric(value) == value[1] \in {"number", "string"}

\* json_i64 wants an integer at once; json_decimal_string takes any non-blank
\* text, whose digits are looked at only when all six fields are read.
is_readable(field, value) ==
  IF field = "start" THEN is_numeric(value) ELSE value[1] # "other"

is_positive(value) == is_numeric(value) /\ value[2] > 0
is_non_negative(value) == is_numeric(value) /\ value[2] >= 0

\* Fields are read in FieldOrder; the first that is absent or unreadable
\* decides the error.
parse_candle_object(row) ==
  IF row[1] # "object" THEN Err("row_not_object")
  ELSE
    LET object == row[2]
        absent(i) == FieldOrder[i] \notin DOMAIN object
        unread == {i \in 1 .. Len(FieldOrder) :
                     absent(i) \/ ~is_readable(FieldOrder[i],
                                               object[FieldOrder[i]])}
        first == CHOOSE i \in unread : \A j \in unread : i <= j
        num(f) == object[f][2]
    IN IF unread # {}
       THEN Err(IF absent(first) THEN "field_omitted" ELSE "field_invalid")
       ELSE IF /\ \A f \in PriceFields : is_positive(object[f])
               /\ is_non_negative(object["volume"])
       THEN Ok([time   |-> num("start"),
                low    |-> num("low"),
                high   |-> num("high"),
                open   |-> num("open"),
                close  |-> num("close"),
                volume |-> num("volume")])
       ELSE Err("field_invalid")

\* The first row, whatever its time.
select_candle(body_json) ==
  IF body_json[1] # "candles" THEN Err("no_candle_array")
  ELSE IF body_json[2] = <<>> THEN Err("no_candles")
  ELSE parse_candle_object(body_json[2][1])

\* Mutant: every row must parse, matched or not.
contains_selected_candle_Strict(body_json, selected) ==
  /\ body_json[1] = "candles"
  /\ LET rows == body_json[2]
     IN /\ \A i \in 1 .. Len(rows) : parse_candle_object(rows[i]).ok
        /\ \E i \in 1 .. Len(rows) : parse_candle_object(rows[i]) = Ok(selected)

\* TRUE when the code returns Ok(true): rows are scanned in order, a row that
\* does not parse ends the scan with an error, and the first match wins.
contains_selected_candle(body_json, selected) ==
  /\ body_json[1] = "candles"
  /\ LET rows == body_json[2]
     IN \E i \in 1 .. Len(rows) :
          /\ parse_candle_object(rows[i]) = Ok(selected)
          /\ \A j \in 1 .. i - 1 : parse_candle_object(rows[j]).ok
================================================================================
