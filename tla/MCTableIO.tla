----------------------------- MODULE MCTableIO -----------------------------
\* Byte tables in two parts of one run: the transfers of the library (TableIO)
\* and, on their promise, the file that tp_lock keeps in the DataStore
\* (DataStore).  A behaviour is of one part; the variables of the other rest.
\* Values for TLC: no granularity, one that divides the token, one that does
\* not, and one larger than the token; files of zeros and ones, from the empty
\* one to one that does not fit.
EXTENDS TableIO, Sequences

CONSTANTS
    Size, WriteHeader, ReadHeader, Limit, Chunk, Base, Files    \* DataStore's

VARIABLES
    part,                           \* "transfer" or "store"
    step, file, stored_len, file_offset, output, outcome, anybody, store, stored,
    changed                         \* DataStore's

MCGranularities == {0, 1, 2, 3, 4}

MCFiles == UNION {[1..n -> {0, 1}] : n \in {0, 1, 3}}
             \cup {<<0, 1, 1, 0, 1, 0>>, <<0, 1, 0, 1, 0, 1, 0, 1>>}

D == INSTANCE DataStore WITH
        pc <- step, file_len <- stored_len, table <- store, touched <- changed

ASSUME StoreFits == D!Fits

svars == <<step, file, stored_len, file_offset, output, outcome, anybody, store, stored, changed>>

BytesInit ==
    /\ Init /\ D!Init
    /\ \/ part = "transfer" /\ file = << >>
       \/ part = "store"

\* The rest of a transfer, or of the use of the DataStore.
BytesNext ==
    /\ UNCHANGED part
    /\ \/ part = "transfer" /\ Next /\ UNCHANGED svars
       \/ part = "store" /\ D!Next /\ UNCHANGED vars

BytesSpec == BytesInit /\ [][BytesNext]_<<part, vars, svars>>

\* TableIO's fairness.
FairBytesSpec == BytesSpec /\ WF_vars(part = "transfer" /\ Host)

-----------------------------------------------------------------------------
\* As long as no later ds_load has begun to write, the DataStore holds what the
\* last completed one stored (tp_lock.cpp, DataStore's property).
HoldsWhatWasStored == D!HoldsWhatWasStored

\* ds_read delivers what lies behind its header in one piece (tp_lock.cpp).
ReadsInOnePiece == D!ReadsInOnePiece

\* tp_lock.cpp, on the permission that ds_load sets: "so we can read this back".
ReadsBack == D!ReadsBack
=============================================================================
