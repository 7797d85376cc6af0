---------------------------- MODULE LocalDataset ----------------------------
(***************************************************************************)
(* How the backtest engine assembles its monthly data set from the CSV     *)
(* files of the data directory (src/backtest_engine/local_dataset.py).     *)
(*                                                                         *)
(* A CSV file is a record: kind says whether it is there and whether every *)
(* row parses, symbol is the instrument its rows name, rows is a set of    *)
(* [period, asOf, close].  Periods are month numbers, closes are positive  *)
(* integers (a row with another close is a row that does not parse).       *)
(* Operators that raise in the code return the error: "" for none,         *)
(* "notfound" for the missing file, "invalid" for every other ValueError.  *)
(***************************************************************************)
EXTENDS Naturals, FiniteSets, Sequences, SequencesExt, FiniteSetsExt

CONSTANTS Specs,              \* the instruments, in the order of their specs
          Fx,                 \* the name of the USDKRW file
          MinRate, MaxRate,   \* the sane range of the USDKRW rate
          IdSpan              \* the distance of two instruments' date ids

Assets == Range(Specs)
Files == Assets \cup {Fx}

(* The periods of the rows of a file.                                      *)
PeriodsOf(file) == {r.period : r \in file.rows}

(* _read_instrument_csv_rows: the file is missing, or a column or a row is *)
(* malformed.                                                              *)
ReadError(file) ==
    CASE file.kind = "absent" -> "notfound"
      [] file.kind = "malformed" -> "invalid"
      [] OTHER -> ""

(* _rows_with_deterministic_sequence: the rows of one period are numbered  *)
(* from 1 in a fixed order.                                                *)
Sequenced(rows, period) ==
    SetToSortSeq({r \in rows : r.period = period},
                 LAMBDA a, b : \/ a.asOf < b.asOf
                               \/ a.asOf = b.asOf /\ a.close < b.close)

(* _deterministic_local_date_id: the instrument's index and the row's      *)
(* number in its period, packed into one number.                           *)
DateIdOf(index, sequence) == index * IdSpan + sequence

(* _rows_to_source_records: a row that names another instrument stops the  *)
(* assembly; every other row becomes one source record.                    *)
RecordsError(asset, file) ==
    IF ReadError(file) # "" THEN ReadError(file)
    ELSE IF file.rows # {} /\ file.symbol # asset THEN "invalid" ELSE ""

RecordsOf(asset, index, file) ==
    UNION {LET rows == Sequenced(file.rows, p)
           IN  {[asset |-> asset, period |-> p, asOf |-> rows[i].asOf,
                 close |-> rows[i].close, date_id |-> <<p, DateIdOf(index, i)>>]
                : i \in DOMAIN rows}
           : p \in PeriodsOf(file)}

(* _read_benchmark_value_rows: at most one row a period.                   *)
BenchmarkRowsError(file) ==
    IF ReadError(file) # "" THEN ReadError(file)
    ELSE IF Cardinality(PeriodsOf(file)) < Cardinality(file.rows) THEN "invalid"
    ELSE ""

RateOf(file, period) == (CHOOSE r \in file.rows : r.period = period).close

(* validate_local_usdkrw_rate_continuity: every rate in range, and no rate *)
(* more than twice or less than half the one before it.                    *)
RateContinuityError(fxFile, periods) ==
    LET rate(p) == RateOf(fxFile, p)
        before(p) == Max({q \in periods : q < p})
        steps == {p \in periods : \E q \in periods : q < p}
    IN  IF /\ periods # {}
           /\ \A p \in periods : rate(p) \in MinRate .. MaxRate
           /\ \A p \in steps : /\ rate(p) <= 2 * rate(before(p))
                               /\ 2 * rate(p) >= rate(before(p))
        THEN "" ELSE "invalid"

(* _build_benchmark_points: the index and the rate of the periods both     *)
(* files have; one point a period, dated by the later of the two rows.     *)
(* The index file is the one of the first instrument.                      *)
BenchmarkPeriods(files) == PeriodsOf(files[Specs[1]]) \cap PeriodsOf(files[Fx])

BenchmarkError(files) ==
    IF BenchmarkRowsError(files[Specs[1]]) # "" THEN BenchmarkRowsError(files[Specs[1]])
    ELSE IF BenchmarkRowsError(files[Fx]) # "" THEN BenchmarkRowsError(files[Fx])
    ELSE RateContinuityError(files[Fx], BenchmarkPeriods(files))

FxPoints(files) ==
    [p \in BenchmarkPeriods(files) |-> RateOf(files[Fx], p)]

BenchmarkPoints(files) ==
    [p \in BenchmarkPeriods(files) |->
        LET index == CHOOSE r \in files[Specs[1]].rows : r.period = p
            rate  == CHOOSE r \in files[Fx].rows : r.period = p
        IN  [asOf |-> Max({index.asOf, rate.asOf}),
             value |-> index.close * rate.close]]

(* _compute_common_periods.                                                *)
CommonPeriods(files) ==
    {p \in BenchmarkPeriods(files) : \A a \in Assets : p \in PeriodsOf(files[a])}

(* assemble_local_monthly_dataset: the instruments in order, then the      *)
(* benchmark, then the common periods; the first error stops it.           *)
AssembleError(files) ==
    LET perAsset == [i \in DOMAIN Specs |-> RecordsError(Specs[i], files[Specs[i]])]
        failing  == {i \in DOMAIN Specs : perAsset[i] # ""}
    IN  IF failing # {} THEN perAsset[Min(failing)]
        ELSE IF BenchmarkError(files) # "" THEN BenchmarkError(files)
        ELSE IF CommonPeriods(files) = {} THEN "invalid" ELSE ""

SourceRecords(files) ==
    UNION {RecordsOf(Specs[i], i, files[Specs[i]]) : i \in DOMAIN Specs}

Dataset(files) ==
    [records |-> SourceRecords(files),
     fx      |-> FxPoints(files),
     points  |-> BenchmarkPoints(files),
     common  |-> CommonPeriods(files)]
=============================================================================
