----------------------------- MODULE EntityStore -----------------------------
(***************************************************************************)
(* What the canonical-entity tables promise to their callers: upsert_entity *)
(* (src/db/entity.py) looks like ONE atomic step that writes the entities   *)
(* row of a corporation and records that the corporation holds its ticker.  *)
(* EntityTxn is the detailed specification, with the transactions, the row  *)
(* locks and the SELECT-then-INSERT of the code; it implements this one.    *)
(* The collectors are modelled on top of the operators defined here.        *)
(***************************************************************************)
CONSTANTS
    CorpCode,      \* 8-digit DART corporation codes
    CompanyName,   \* canonical names
    Ticker,        \* 6-digit KRX tickers
    None           \* SQL NULL, "no row"

EntityRow == [name : CompanyName, ticker : Ticker \cup {None}]

ASSUME NoneIsFresh == /\ None \notin Ticker
                      /\ None \notin EntityRow

VARIABLES
    entities,      \* entities[c]: the row with primary key c, or None
    holders        \* the pairs <<c, t>> with a current 'ticker' alias

storeVars == <<entities, holders>>

StoreTypeOK == /\ entities \in [CorpCode -> EntityRow \cup {None}]
               /\ holders \subseteq CorpCode \X Ticker

StoreInit == /\ entities = [c \in CorpCode |-> None]
             /\ holders = {}

(* Nothing in the program removes an alias or sets its valid_to: a holder   *)
(* stays a holder.                                                          *)
UpsertEntity(c, n, t) ==
    /\ entities' = [entities EXCEPT ![c] = [name |-> n, ticker |-> t]]
    /\ holders' = holders \cup ({<<c, t>>} \cap (CorpCode \X Ticker))

(* resolve_entity(ticker): one row of the join, picked by LIMIT 1 without   *)
(* an ORDER BY. The set of corporations the call may return; {} is None.    *)
ResolveTicker(t) == {c \in CorpCode : <<c, t>> \in holders}

StoreNext == \E c \in CorpCode, n \in CompanyName, t \in Ticker \cup {None} :
                UpsertEntity(c, n, t)

StoreSpec == StoreInit /\ [][StoreNext]_storeVars
==============================================================================
