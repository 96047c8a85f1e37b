----------------------------- MODULE RowChecks -----------------------------
(***************************************************************************)
(* What the check methods of src/db.js accept as the awaited row: one      *)
(* definition per method, giving for each parameter it takes how a given   *)
(* value constrains the row.  DbWait polls such a method.                  *)
(*                                                                         *)
(* A request gives some parameters a value; the method turns them into     *)
(* WHERE clauses, runs the query, and answers one matching row or null.    *)
(* Which of several matching rows comes first is the database's choice.    *)
(***************************************************************************)
EXTENDS Naturals

CONSTANTS
    Methods,     \* the check methods asked
    Given,       \* kind of parameter -> the values callers give it
    Stored,      \* kind of parameter -> the values rows hold there
    AtOnce,      \* bound on the parameters a request varies
    RowCount     \* bound on the rows in the table

\* "none" is undefined or null, "empty" is '', "zero" is 0; "respeltA" is the
\* value A in another spelling (an upper-case hex digit, a padded amount).
Values == {"none", "empty", "zero", "A", "respeltA", "B"}
Kinds  == {"exact", "memo", "truthy", "hex", "number", "amount", "flag", "own", "items", "ignored"}

ASSUME RowChecksAssumption ==
    /\ Given  \in [Kinds -> SUBSET (Values \ {"none"})]
    /\ Stored \in [Kinds -> SUBSET {"null", "zero", "A", "B"}]
    /\ AtOnce \in Nat /\ RowCount \in Nat

-----------------------------------------------------------------------------
(* How a parameter constrains a row.                                       *)

As(kind, columns) == [c \in columns |-> kind]

f ++ g == [c \in DOMAIN f \cup DOMAIN g |-> IF c \in DOMAIN f THEN f[c] ELSE g[c]]

Falsy == {"none", "empty", "zero"}     \* also what isNullOrNullString answers true for

\* String(x).toLowerCase(), or x + 0 on both sides.
Respell(q) == IF q = "respeltA" THEN "A" ELSE q

\* Mutant: an asserted empty memo compared with '', which no NULL equals.
MemoByValue(q, v) == q # "none" => v = q

\* '' means no memo, which the indexer stores as NULL.
Memo(q, v) == q # "none" => IF q = "empty" THEN v = "null" ELSE v = q

\* Mutant: a falsy test where zero is a value.
NumberIfTruthy(q, v) == q \notin Falsy => v = q

\* Number('') is 0.
Number(q, v) == q # "none" => v = IF q = "empty" THEN "zero" ELSE q

Hex(q, v) == q \notin Falsy => v = Respell(q)

\* Does a row that holds v pass the clause for a parameter of this kind given as q?
Passes(kind, q, v) ==
    CASE kind = "exact"   -> q # "none" => v = q
      [] kind = "memo"    -> Memo(q, v)
      [] kind = "truthy"  -> q \notin Falsy => v = q
      [] kind = "hex"     -> Hex(q, v)
      [] kind = "number"  -> Number(q, v)
      [] kind = "amount"  -> q # "none" => v = Respell(q)
      [] kind = "flag"    -> (q = "A" => v # "null") /\ (q = "zero" => v = "null")
      [] kind \in {"ignored", "items", "own"} -> TRUE

-----------------------------------------------------------------------------
(* The methods.                                                            *)

checkIssue ==
    As("exact", {"source", "tick", "txHash", "maxSupply", "maxMint", "decimals",
                 "description", "mintSupply", "status"}) ++
    As("ignored", {"transferAddress", "transferMintSupplyAddress", "lockMaxSupply", "lockMint",
                   "lockMintSupply", "lockMaxMint", "lockDescription", "lockRug", "lockSleep",
                   "lockCallback", "callbackBlock", "callbackTickId", "callbackAmount",
                   "allowList", "blockList", "mintAddressMax", "mintStartBlock", "mintStopBlock"})
checkSend == As("memo", {"memo"}) ++
    As("exact", {"source", "destination", "tick", "amount", "txHash", "status"})
checkCredit == As("exact", {"blockIndex", "txHash", "tick", "address", "amount"})
checkDebit  == As("exact", {"blockIndex", "txHash", "tick", "address", "amount"})
checkMint == As("memo", {"memo"}) ++
    As("exact", {"blockIndex", "txHash", "tick", "destination", "amount", "status"})
checkBroadcast == As("memo", {"memo"}) ++
    As("exact", {"blockIndex", "txHash", "source", "message", "value", "fee",
                 "broadcastActionIndex", "status"})
\* The items of the list are compared after the query, on the row it answered.
checkList == As("memo", {"memo"}) ++ As("items", {"items"}) ++
    As("exact", {"blockIndex", "txHash", "source", "type", "edit", "listActionIndex", "status"})
checkAirdrop == As("memo", {"memo"}) ++
    As("exact", {"blockIndex", "txHash", "source", "tick", "amount", "listActionIndex", "status"})
\* getAddress not given asks for the dispenser's own source.
checkDispenser == As("own", {"getAddress"}) ++ As("ignored", {"fiatAmount"}) ++
    As("truthy", {"blockIndex", "txHash", "source", "giveCoin", "giveTick", "giveAmount",
                  "giveEscrow", "getCoin", "getTick", "getAmount", "fiatCode", "expiration",
                  "allowList", "blockList", "memo", "status"})
checkDispense ==
    As("truthy", {"blockIndex", "txHash", "source", "giveCoin", "giveTick", "giveAmount",
                  "getCoin", "getTick", "getAmount", "destination", "status"})
checkDispenserStatus == As("exact", {"dispenserActionIndex", "status"})
checkAddressOption == As("exact", {"txHash", "source", "feePreference", "requireMemo", "status"})
checkDestroy == As("memo", {"memo"}) ++ As("exact", {"txHash", "source", "tick", "amount", "status"})
checkMessage == As("exact", {"txHash", "source", "destination", "plaintextMessage", "status"})
checkPrice ==
    As("exact", {"txHash", "source", "version", "tick", "fiat", "value", "validationStatus", "status"})
checkFile == As("exact", {"txHash", "source", "name", "title", "status"})
checkSleep == As("exact", {"txHash", "source", "type", "tick", "resumeBlock", "status"})
checkSweep ==
    As("exact", {"txHash", "source", "destination", "balances", "ownerships", "orders", "swaps",
                 "dispensers", "status"})
checkDividend == As("exact", {"txHash", "source", "tick", "dividendTick", "amount", "status"})
checkCallback == As("exact", {"txHash", "source", "tick", "callbackTick", "status"})
checkOrder == As("amount", {"giveAmount", "getAmount"}) ++
    As("exact", {"txHash", "source", "giveCoin", "giveTick", "getCoin", "getTick", "getAddress",
                 "expiration", "status", "orderStatus"})
\* The class defines checkOrderMatch twice and the later definition wins.
checkOrderMatch == As("exact", {"giveActionIndex", "getActionIndex", "status"}) ++
    As("ignored", {"giveTick", "getTick", "giveAmount", "getAmount"})
checkSwap ==
    As("exact", {"txHash", "source", "giveCoin", "giveTick", "giveAmount", "getCoin", "getTick",
                 "getAmount", "getAddress", "expiration", "status", "swapStatus"})
checkSwapMatch ==
    As("exact", {"giveActionIndex", "getActionIndex", "giveTick", "getTick", "giveAmount",
                 "getAmount", "status"})
checkBatch == As("exact", {"txHash", "source", "status"})
checkLink ==
    As("exact", {"txHash", "source", "coin1", "coin1ActionIndex", "coin2", "coin2ActionIndex", "status"})
checkCoinpay == As("exact", {"txHash", "obligationActionIndex", "status"})
checkCoinpayObligation == As("exact", {"actionIndex", "coinpayStatus"})
checkContract == As("truthy", {"source", "txHash", "status"})
checkExecution == As("truthy", {"contractIndex", "caller", "methodName", "txHash", "status"})
checkDeposit == As("truthy", {"source", "contractIndex", "tick", "amount", "txHash", "status"})
checkWithdrawal == As("truthy", {"source", "contractIndex", "tick", "amount", "txHash", "status"})
checkStake   == As("hex", {"signingPubkey"}) ++ As("truthy", {"source", "txHash", "status"})
checkUnstake == As("hex", {"signingPubkey"}) ++ As("truthy", {"source", "txHash", "status"})
checkAttestationRequest  == As("hex", {"requestId"}) ++ As("truthy", {"txHash", "requestStatus"})
checkAttestationResponse == As("hex", {"requestId"}) ++ As("truthy", {"txHash", "responseStatus", "status"})
checkDelegation == As("hex", {"signingPubkey"}) ++ As("flag", {"deactivated"}) ++
    As("truthy", {"source", "txHash", "status"})
checkStakeKeyRevocation == As("hex", {"signingPubkey"}) ++ As("truthy", {"source", "txHash", "status"})
checkContractStake == As("hex", {"signingPubkey"}) ++ As("number", {"contractIndex"}) ++
    As("truthy", {"source", "tick", "txHash", "status"})
checkContractUnstake == As("hex", {"signingPubkey"}) ++ As("number", {"contractIndex"}) ++
    As("truthy", {"source", "tick", "txHash", "status"})
checkContractDelegation == As("number", {"contractIndex"}) ++
    As("truthy", {"source", "tick", "txHash", "status"})
checkSlashEvent == As("hex", {"signingPubkey"}) ++ As("number", {"contractIndex", "executionIndex"}) ++
    As("truthy", {"tick"})
checkRewardClaim == As("truthy", {"source", "txHash", "status"})

Check ==
    [issue |-> checkIssue, send |-> checkSend, credit |-> checkCredit, debit |-> checkDebit,
     mint |-> checkMint, broadcast |-> checkBroadcast, list |-> checkList, airdrop |-> checkAirdrop,
     dispenser |-> checkDispenser, dispense |-> checkDispense,
     dispenserStatus |-> checkDispenserStatus, addressOption |-> checkAddressOption,
     destroy |-> checkDestroy, message |-> checkMessage, price |-> checkPrice, file |-> checkFile,
     sleep |-> checkSleep, sweep |-> checkSweep, dividend |-> checkDividend,
     callback |-> checkCallback, order |-> checkOrder, orderMatch |-> checkOrderMatch,
     swap |-> checkSwap, swapMatch |-> checkSwapMatch, batch |-> checkBatch, link |-> checkLink,
     coinpay |-> checkCoinpay, coinpayObligation |-> checkCoinpayObligation,
     contract |-> checkContract, execution |-> checkExecution, deposit |-> checkDeposit,
     withdrawal |-> checkWithdrawal, stake |-> checkStake, unstake |-> checkUnstake,
     attestationRequest |-> checkAttestationRequest,
     attestationResponse |-> checkAttestationResponse, delegation |-> checkDelegation,
     stakeKeyRevocation |-> checkStakeKeyRevocation, contractStake |-> checkContractStake,
     contractUnstake |-> checkContractUnstake, contractDelegation |-> checkContractDelegation,
     slashEvent |-> checkSlashEvent, rewardClaim |-> checkRewardClaim]

\* What callers give: '' as a memo and where it means "not given", 0 where a
\* method tests a number or a flag, other spellings where it normalises.
ASSUME CallersAssumption ==
    /\ Methods \subseteq DOMAIN Check
    /\ \A k \in Kinds \ {"ignored"} :
         /\ "empty" \in Given[k] => k \in {"memo", "truthy", "own"}
         /\ "zero" \in Given[k] => k \in {"number", "flag"}
         /\ "respeltA" \in Given[k] => k \in {"hex", "amount"}
    /\ Given["flag"] \subseteq {"A", "zero"}

-----------------------------------------------------------------------------
(* A call.  Requests and rows are functions on the parameters under test; *)
(* every other parameter is not given, every other column is "A".          *)

VARIABLES
    method, request, table,
    answered,   \* has the poll been made?
    answer      \* the row it answered, in a set; null is {}
checkVars == <<method, request, table, answered, answer>>

\* What the callers of a method give in every call.
Always == IF method = "list" THEN {"type", "items"} ELSE {}

Asked(c)     == IF c \in DOMAIN request THEN request[c] ELSE IF c \in Always THEN "A" ELSE "none"
Column(r, c) == IF c \in DOMAIN r THEN r[c] ELSE "A"

\* A clause for c is in the WHERE; with none at all the query is not run, or is
\* no SQL, and the method answers null either way.
Constrains(kind, q) ==
    CASE kind \in {"ignored", "items"} -> FALSE
      [] kind \in {"truthy", "hex"}    -> q \notin Falsy
      [] kind = "own"                  -> TRUE
      [] kind = "flag"                 -> q \in {"A", "zero"}
      [] OTHER                         -> q # "none"

HasWhere == \E c \in DOMAIN Check[method] : Constrains(Check[method][c], Asked(c))

OwnAddress(r) ==
    LET q == Asked("getAddress") IN
    IF q \in Falsy THEN Column(r, "getAddress") = Column(r, "source")
                   ELSE Column(r, "getAddress") = q

Matches(r) ==
    /\ \A c \in DOMAIN Check[method] : Passes(Check[method][c], Asked(c), Column(r, c))
    /\ method = "dispenser" => OwnAddress(r)

\* The list types checkList knows where to find the names of: "A" stands for one
\* of them (1 and 2), "B" for a type it has no join for.
ItemTypes == {"A"}

\* The second query of checkList: same number of items, and none left over.  For
\* any other type, or none, it selects no column, fails, and the answer is null.
ItemsAgree(r) ==
    method = "list" => Asked("type") \in ItemTypes /\ Column(r, "items") = Asked("items")

Omitted(c) == IF c = "items" THEN {} ELSE {"none"}

Requests(C) ==
    {q \in [C -> Values] :
        \A c \in C : q[c] \in Given[Check[method][c]] \cup Omitted(c)}
RowsOver(C) ==
    {r \in [C -> UNION {Stored[k] : k \in Kinds}] : \A c \in C : r[c] \in Stored[Check[method][c]]}

CheckInit ==
    /\ method \in Methods
    /\ \E f \in [1..AtOnce -> DOMAIN Check[method]] :
          LET C == {f[i] : i \in 1..AtOnce} IN
          /\ request \in Requests(C)
          /\ \E t \in [1..RowCount -> RowsOver(C)] : table = {t[i] : i \in 1..RowCount}
    /\ answered = FALSE /\ answer = {}

\* One poll: rows[0] of the matching rows, or null.
Poll ==
    /\ ~answered /\ answered' = TRUE
    /\ LET rows == {r \in table : HasWhere /\ Matches(r)} IN
       \/ \E r \in rows : answer' = {x \in {r} : ItemsAgree(x)}
       \/ rows = {} /\ answer' = {}
    /\ UNCHANGED <<method, request, table>>

Answered == answered /\ UNCHANGED checkVars

CheckNext == Poll \/ Answered

CheckSpec == CheckInit /\ [][CheckNext]_checkVars

-----------------------------------------------------------------------------
(* What a caller means by a request.                                       *)

\* Of a parameter the method takes and then ignores nothing is promised, nor of
\* an empty memo where the method does not tell it from one not given.
Means(c, q, v) ==
    (q # "none" /\ Check[method][c] # "ignored") =>
        /\ c = "deactivated" => ((v # "null") <=> (q = "A"))
        /\ q = "empty" => (Check[method][c] = "memo" => v = "null")
        /\ c # "deactivated" /\ q # "empty" => v = Respell(q)

Wanted(r) == /\ \A c \in DOMAIN request : Means(c, request[c], r[c])
             /\ method = "dispenser" => OwnAddress(r)

-----------------------------------------------------------------------------
(* Properties.                                                             *)

(* A row that is answered has the value of every parameter the caller gave  *)
(* and the method filters on; an asserted empty memo is a row without memo  *)
(* and a list has the items asked for (checkX): else a suite passes on      *)
(* somebody else's row.                                                     *)
AnswersWhatWasAsked == \A r \in answer : Wanted(r)

(* A row the request describes is not overlooked, hex given in the other    *)
(* case and amounts given padded included: else a suite reports an action   *)
(* missing that is there.  checkList, which looks at the items of one       *)
(* matching list, promises it only for a type whose items it can name, and  *)
(* only when no other list matches.                                         *)
FindsWhatIsThere ==
    (answered /\ answer = {} /\ HasWhere /\ (method = "list" => Asked("type") \in ItemTypes)) =>
        \A r \in table : Wanted(r) => \E s \in table \ {r} : method = "list" /\ Matches(s)
=============================================================================
