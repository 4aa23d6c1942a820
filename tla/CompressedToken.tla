--------------------------- MODULE CompressedToken ---------------------------
(***************************************************************************)
(* programs/compressed-token: SPL tokens as compressed accounts.  The      *)
(* program itself keeps no accounts but the pool of every mint: an         *)
(* instruction names the accounts it consumes, the program rebuilds their  *)
(* token data from the signer, the delegate and the mint, hashes it and    *)
(* has the system program prove that such accounts exist.                  *)
(*                                                                         *)
(* accounts is the bag of the token accounts that exist (SystemProgram and *)
(* StateTree show that an account is consumed once); hashing is ideal.     *)
(* Lamports that end in an account without token data leave this module.   *)
(* An instruction that returns an error changes nothing.                   *)
(*                                                                         *)
(* All instructions but mint_to pass a CPI context on to the system        *)
(* program, which then only caches the inputs and outputs, without a       *)
(* proof, or executes them together with everything cached before.  The    *)
(* SPL tokens of the instruction move at once in either case.              *)
(***************************************************************************)
EXTENDS Integers, SequencesExt

CONSTANTS
    Holder,             \* owners of tokens, delegates
    Admin,              \* signers that are authorities of mints and hold no tokens
    Mint,               \* SPL mints
    MintAuthority,      \* mint_authority of every mint
    FreezeAuthority,    \* freeze_authority of every mint, or None
    None,               \* Option::None
    Pool,               \* token_pool_pda as a recipient
    Payer,              \* fee payers of instructions with a CPI context
    InitialSpl,         \* tokens that every holder has in its SPL account
    MaxSupply,          \* bound: tokens of all mints, SPL and compressed
    MaxAccounts,        \* bound: token accounts that exist at once
    MaxCached,          \* bound: inputs, and outputs, in the CPI context
    MaxShared,          \* bound: tokens, and accounts with their lamports, that exist
                        \* while the CPI context is in use, and outputs
    Claimed,            \* bound: accounts that a cached instruction names and that
                        \* need not exist
    MaxInputs,          \* bound: inputs of an instruction
    MaxOutputs,         \* bound: outputs of an instruction
    MaxLamports         \* bound: lamports of all accounts

\* The token accounts that there may be
TokenAccount ==
    [mint : Mint, owner : Holder, amount : Nat, delegate : Holder \cup {None},
     state : {"Initialized", "Frozen"}, lamports : Nat]

ASSUME CompressedTokenAssumption ==
    /\ {InitialSpl, MaxSupply, MaxAccounts, MaxCached, MaxShared, MaxInputs, MaxOutputs,
         MaxLamports} \subseteq Nat
    /\ None \notin Holder \cup Admin \cup Payer /\ Pool \notin Holder
    /\ IsFiniteSet(Holder \cup Admin)
    /\ IsFiniteSet(Claimed) /\ Claimed \subseteq TokenAccount
    /\ None \notin Nat

VARIABLES
    accounts,       \* bag of token accounts
    pool,           \* amount of every mint's token_pool_pda, None before it exists
    spl,            \* amounts of the signers' SPL token accounts
    supply,         \* supply of every mint
    context,        \* the token accounts cached in the CPI context account
    unsettled,      \* history: tokens that came into the pool of every mint by
                    \* instructions that were cached and have not been executed
    signers         \* history: authorities of the parts that the last instruction
                    \* executed, as far as they signed for its fee payer

vars == <<accounts, pool, spl, supply, context, unsettled, signers>>

-----------------------------------------------------------------------------
\* TokenData, with the lamports of the compressed account
TokenData(mint, owner, amount, delegate, state, lamports) ==
    [mint |-> mint, owner |-> owner, amount |-> amount, delegate |-> delegate,
     state |-> state, lamports |-> lamports]

\* Sums over bags of accounts.
Worth(bag) == [a \in DOMAIN bag |-> bag[a] * a.amount]
Amount(bag) == SumFunction(Worth(bag))
Lamports(bag) == SumFunction([a \in DOMAIN bag |-> bag[a] * a.lamports])

\* Mutant: an input with a delegate is taken for one of the owner that the
\* delegated transfer names, whoever the delegate is.
AnyDelegate(a, authority, delegated_transfer) ==
    a.owner = IF a.delegate = None \/ delegated_transfer = None THEN authority
              ELSE delegated_transfer.owner

\* get_input_compressed_accounts_with_merkle_context_and_check_signer: the
\* token data hashed for an input has this owner and delegate.
check_signer(a, authority, delegated_transfer) ==
    /\ a.owner = IF a.delegate = None \/ delegated_transfer = None THEN authority
                 ELSE delegated_transfer.owner
    /\ delegated_transfer # None /\ a.delegate # None => a.delegate = authority

\* add_token_data_to_input_compressed_accounts: the hash covers mint and state.
HashedAs(a, mint, state) == a.mint = mint /\ a.state = state

\* The inputs that an instruction may name out of a bag of accounts
Inputs(source, authority, delegated_transfer, mint, state) ==
    LET may == {a \in DOMAIN source :
                    check_signer(a, authority, delegated_transfer) /\ HashedAs(a, mint, state)}
    IN  {ins \in {ToBag(list) : list \in UNION {[1 .. n -> may] : n \in 0 .. MaxInputs}} :
            ins \sqsubseteq source}

\* create_output_compressed_accounts: output i is delegated if is_delegate[i].
create_output_compressed_accounts(mint, outs, delegate, is_delegate) ==
    ToBag([i \in DOMAIN outs |->
            TokenData(mint, outs[i].owner, outs[i].amount,
                      IF i \in is_delegate THEN delegate ELSE None, "Initialized",
                      outs[i].lamports)])

-----------------------------------------------------------------------------
\* The CPI context account: process_cpi_context of the system program, as far
\* as token accounts are concerned.  cpi is the CompressedCpiContext of an
\* instruction with its fee payer.

\* The inputs and outputs that an instruction hands to the system program,
\* with the tokens that it moved into the pools, and who signed for which fee
\* payer; the code keeps the inputs and outputs only.
Part(signed, ins, outs, moved) ==
    [signed |-> signed, ins |-> ins, outs |-> outs, moved |-> moved]
NoPart == Part({}, EmptyBag, EmptyBag, [m \in Mint |-> 0])
Into(mint, amount) == [m \in Mint |-> IF m = mint THEN amount ELSE 0]

FeePayer(cpi) == IF cpi = None THEN None ELSE cpi.fee_payer
Caches(cpi) == cpi # None /\ cpi.set_context

\* Mutant: the inputs of the second part are forgotten.
CombineForgetsInputs(p, q) ==
    Part(p.signed \cup q.signed, p.ins, p.outs (+) q.outs,
         [m \in Mint |-> p.moved[m] + q.moved[m]])

\* InstructionDataInvokeCpi::combine
combine(p, q) ==
    Part(p.signed \cup q.signed, p.ins (+) q.ins, p.outs (+) q.outs,
         [m \in Mint |-> p.moved[m] + q.moved[m]])

\* Mutant: any fee payer may add to the parts or execute them.
MayUseAny(cpi) ==
    cpi # None => IF cpi.first_set_context THEN cpi.set_context ELSE context.fee_payer # None

\* Neither CpiContextEmpty nor CpiContextFeePayerMismatch: the first part
\* replaces what is cached, and all else needs parts of the same fee payer.
MayUse(cpi) ==
    cpi # None => IF cpi.first_set_context THEN cpi.set_context
                  ELSE context.fee_payer = cpi.fee_payer

\* set_cpi_context
Cache(cpi, part) ==
    LET parts == IF cpi.first_set_context THEN part ELSE combine(part, context.parts)
    IN  /\ BagCardinality(parts.ins) <= MaxCached /\ BagCardinality(parts.outs) <= MaxCached
        /\ context' = [fee_payer |-> cpi.fee_payer, parts |-> parts]
        /\ unsettled' = [m \in Mint |-> unsettled[m] + part.moved[m]]
        /\ signers' = {}
        /\ UNCHANGED accounts

\* The bounds, which are closer while the CPI context is in use: parts are
\* cached, or were and have not been executed.
InUse == context.fee_payer # None \/ \E m \in Mint : unsettled[m] # 0
Shareable(bag) ==
    BagCardinality(bag) + Lamports(bag) <= MaxShared /\ SumFunction(supply) <= MaxShared
Bounded(bag) ==
    /\ BagCardinality(bag) <= MaxAccounts /\ Amount(bag) <= MaxSupply
    /\ InUse => Shareable(bag)
Unminted == (IF InUse THEN MaxShared ELSE MaxSupply) - SumFunction(supply)

\* The system program proves the inputs and replaces them by the outputs.
Settle(fee_payer, part) ==
    LET new == (accounts (-) part.ins) (+) part.outs
    IN  /\ part.ins \sqsubseteq accounts
        /\ Bounded(new)
        /\ accounts' = new
        /\ signers' = {s[1] : s \in {t \in part.signed : t[2] = fee_payer}}

\* process_invoke_cpi
process_invoke_cpi(cpi, part) ==
    /\ MayUse(cpi)
    /\ IF Caches(cpi) THEN Cache(cpi, part)
       ELSE IF cpi = None THEN Settle(None, part) /\ UNCHANGED <<context, unsettled>>
       ELSE /\ Settle(cpi.fee_payer, combine(part, context.parts))
            /\ context' = [fee_payer |-> None, parts |-> NoPart]
            /\ unsettled' = [m \in Mint |-> unsettled[m] - context.parts.moved[m]]

\* cpi_execute_compressed_transaction_transfer: the lamports of inputs and
\* outputs agree; moved tokens of the mint went into its pool.
Execute(cpi, authority, mint, ins, outs, change_lamports, moved) ==
    /\ Lamports(ins) = Lamports(outs) + change_lamports
    /\ process_invoke_cpi(cpi, Part({<<authority, FeePayer(cpi)>>}, ins, outs, Into(mint, moved)))

-----------------------------------------------------------------------------
Init ==
    /\ accounts = EmptyBag
    /\ pool = [m \in Mint |-> None]
    /\ spl = [m \in Mint |-> [h \in Holder \cup Admin |-> IF h \in Holder THEN InitialSpl ELSE 0]]
    /\ supply = [m \in Mint |-> InitialSpl * Cardinality(Holder)]
    /\ context = [fee_payer |-> None, parts |-> NoPart]
    /\ unsettled = [m \in Mint |-> 0]
    /\ signers = {}

create_token_pool(mint, payer) ==
    /\ pool[mint] = None
    /\ pool' = [pool EXCEPT ![mint] = 0]
    /\ signers' = {payer}
    /\ UNCHANGED <<accounts, spl, supply, context, unsettled>>

\* mint_spl_to_pool_pda
mint_spl_to_pool_pda(mint, amount) ==
    /\ pool[mint] # None
    /\ pool' = [pool EXCEPT ![mint] = @ + amount]
    /\ supply' = [supply EXCEPT ![mint] = @ + amount]
    /\ UNCHANGED spl

\* process_mint_to: every output gets the same lamports, which the fee payer
\* compresses.
process_mint_to(authority, mint, outs) ==
    LET created == create_output_compressed_accounts(mint, outs, None, {})
    IN  /\ authority = MintAuthority[mint]
        /\ mint_spl_to_pool_pda(mint, Amount(created))
        /\ outs # <<>> /\ \A i, j \in DOMAIN outs : outs[i].lamports = outs[j].lamports
        /\ Bounded(accounts (+) created)
        /\ accounts' = accounts (+) created
        /\ signers' = {authority}
        /\ UNCHANGED <<context, unsettled>>

\* The tokens that a compression or decompression moves into the pool
Moved(compression) ==
    IF compression = None THEN 0
    ELSE IF compression.is_compress THEN compression.amount ELSE -compression.amount

\* sum_check: what the inputs and the compression leave to the outputs
OutputSum(ins, compression) == Amount(ins) + Moved(compression)

\* IsTokenPoolPda
RecipientAllowed(recipient) == recipient # Pool

\* compress_spl_tokens: tokens of the authority go to the pool of this mint.
compress_spl_tokens(authority, mint, amount) ==
    /\ spl' = [spl EXCEPT ![mint][authority] = @ - amount]
    /\ pool' = [pool EXCEPT ![mint] = @ + amount]

\* decompress_spl_tokens: tokens of the pool go to a recipient.
decompress_spl_tokens(recipient, mint, amount) ==
    IF recipient = Pool THEN UNCHANGED <<pool, spl>>
    ELSE /\ spl' = [spl EXCEPT ![mint][recipient] = @ + amount]
         /\ pool' = [pool EXCEPT ![mint] = @ - amount]

\* The accounts of a compression and the balances that the SPL token program
\* checks: the pool is the one of this mint.
CompressionChecks(authority, mint, compression) ==
    compression # None =>
        /\ pool[mint] # None
        /\ RecipientAllowed(compression.account)
        /\ IF compression.is_compress
           THEN compression.account = authority /\ spl[mint][authority] >= compression.amount
           ELSE pool[mint] >= compression.amount

\* process_compression_or_decompression
process_compression(authority, mint, compression) ==
    IF compression = None THEN UNCHANGED <<pool, spl>>
    ELSE IF compression.is_compress
    THEN compress_spl_tokens(authority, mint, compression.amount)
    ELSE decompress_spl_tokens(compression.account, mint, compression.amount)

\* The outputs that stay delegated: the one at delegate_change_account_index.
IsDelegate(delegated_transfer) ==
    IF delegated_transfer = None \/ delegated_transfer.index = None THEN {}
    ELSE {delegated_transfer.index}

\* The checks of process_transfer; lamports that the outputs do not take go to
\* an account without token data of the authority, in the tree of the first
\* output.
TransferChecks(authority, mint, ins, outs, delegated_transfer, compression) ==
    LET change_lamports == Lamports(ins) - Lamports(ToBag(outs))
    IN  /\ ins = EmptyBag => compression # None /\ outs # <<>>
        /\ IsDelegate(delegated_transfer) \subseteq DOMAIN outs
        /\ Amount(ToBag(outs)) = OutputSum(ins, compression)
        /\ change_lamports >= 0 /\ (change_lamports > 0 => outs # <<>>)
        /\ CompressionChecks(authority, mint, compression)

process_transfer(cpi, authority, mint, ins, outs, delegated_transfer, compression) ==
    LET created == create_output_compressed_accounts(mint, outs, authority,
                                                     IsDelegate(delegated_transfer))
    IN  /\ TransferChecks(authority, mint, ins, outs, delegated_transfer, compression)
        /\ process_compression(authority, mint, compression)
        /\ Execute(cpi, authority, mint, ins, created, Lamports(ins) - Lamports(created),
                   Moved(compression))
        /\ UNCHANGED supply

\* burn_spl_from_pool_pda
burn_spl_from_pool_pda(mint, amount) ==
    /\ pool[mint] # None /\ pool[mint] >= amount
    /\ pool' = [pool EXCEPT ![mint] = @ - amount]
    /\ supply' = [supply EXCEPT ![mint] = @ - amount]
    /\ UNCHANGED spl

\* create_input_and_output_accounts_burn: what is left stays with the owner.
BurnOutputs(owner, ins, burn_amount) ==
    LET change_amount == Amount(ins) - burn_amount
    IN  IF change_amount > 0 \/ Lamports(ins) > 0
        THEN <<[owner |-> owner, amount |-> change_amount, lamports |-> Lamports(ins)]>>
        ELSE <<>>

\* process_burn: a delegated burn with a rest names its only output as change
\* account, which stays delegated.  The pool's tokens are burned first.
process_burn(cpi, authority, mint, ins, burn_amount, delegated_transfer) ==
    LET owner == IF delegated_transfer = None THEN authority ELSE delegated_transfer.owner
        outs == BurnOutputs(owner, ins, burn_amount)
    IN  /\ ins # EmptyBag /\ burn_amount <= Amount(ins)
        /\ outs # <<>> /\ delegated_transfer # None => delegated_transfer.index = 1
        /\ burn_spl_from_pool_pda(mint, burn_amount)
        /\ Execute(cpi, authority, mint, ins,
                   create_output_compressed_accounts(mint, outs, authority,
                                                     IsDelegate(delegated_transfer)),
                   0, -burn_amount)

\* create_input_and_output_accounts_approve: the first output is delegated.
ApproveOutputs(owner, ins, delegated_amount, delegate_lamports) ==
    LET change_amount == Amount(ins) - delegated_amount
        change_lamports == Lamports(ins) - delegate_lamports
        Out(amount, lamports) == [owner |-> owner, amount |-> amount, lamports |-> lamports]
    IN  <<Out(delegated_amount, delegate_lamports)>>
            \o (IF change_amount > 0 \/ change_lamports > 0
                THEN <<Out(change_amount, change_lamports)>> ELSE <<>>)

process_approve(cpi, authority, mint, ins, delegate, delegated_amount, delegate_lamports) ==
    /\ ins # EmptyBag
    /\ delegated_amount <= Amount(ins) /\ delegate_lamports <= Lamports(ins)
    /\ Execute(cpi, authority, mint, ins,
               create_output_compressed_accounts(mint,
                   ApproveOutputs(authority, ins, delegated_amount, delegate_lamports),
                   delegate, {1}), 0, 0)
    /\ UNCHANGED <<pool, spl, supply>>

\* create_input_and_output_accounts_revoke merges the inputs.
RevokeOutputs(owner, ins) ==
    <<[owner |-> owner, amount |-> Amount(ins), lamports |-> Lamports(ins)]>>

process_revoke(cpi, authority, mint, ins) ==
    /\ ins # EmptyBag
    /\ Execute(cpi, authority, mint, ins,
               create_output_compressed_accounts(mint, RevokeOutputs(authority, ins), None, {}),
               0, 0)
    /\ UNCHANGED <<pool, spl, supply>>

\* create_token_output_accounts: one output per input, with its delegate.
Restated(a, state) == [a EXCEPT !.state = state]
create_token_output_accounts(ins, state) ==
    [b \in {Restated(a, state) : a \in DOMAIN ins} |->
        SumFunctionOnSet(ins, {a \in DOMAIN ins : Restated(a, state) = b})]

\* process_freeze_or_thaw: the accounts of one owner, of this mint
process_freeze_or_thaw(cpi, authority, mint, ins, state) ==
    /\ authority = FreezeAuthority[mint]
    /\ ins # EmptyBag
    /\ Execute(cpi, authority, mint, ins, create_token_output_accounts(ins, state), 0, 0)
    /\ UNCHANGED <<pool, spl, supply>>

-----------------------------------------------------------------------------
\* Instruction data.  The outputs are listed once, by what they are worth.
Output == [owner : Holder, amount : 0 .. MaxSupply, lamports : 0 .. MaxLamports]
Priced ==
    {<<Amount(ToBag(outs)), Lamports(ToBag(outs)), outs>>
        : outs \in UNION {[1 .. n -> Output] : n \in 0 .. MaxOutputs}}
OutputsOf(room, amount, lamports) ==
    {p[3] : p \in {q \in Priced : q[1] = amount /\ q[2] = lamports /\ Len(q[3]) <= room}}
\* The change account of a delegated transfer comes first, without loss: the
\* outputs are tried in every order.
DelegatedTransfers(h) == {None} \cup [owner : Holder \ {h}, index : {None, 1}]

\* The compressions with which a transfer of these inputs is not refused
Compressions(h, m, ins) ==
    {c \in {None} \cup [is_compress : {TRUE}, amount : 1 .. spl[m][h], account : {h}]
                  \cup [is_compress : {FALSE}, amount : 1 .. MaxSupply,
                        account : Holder \cup {Pool}] :
        CompressionChecks(h, m, c) /\ (ins = EmptyBag => c # None)}

\* The contexts that the system program does not refuse.  Where it only
\* caches, an instruction may name accounts that do not exist.
Contexts ==
    {cpi \in {None} \cup [set_context : BOOLEAN, first_set_context : BOOLEAN, fee_payer : Payer] :
        MayUse(cpi) /\ (cpi # None => Shareable(accounts))}
Source(cpi) ==
    IF Caches(cpi) THEN [a \in DOMAIN accounts \cup Claimed |-> MaxShared] ELSE accounts

\* Bound: outputs of an instruction
Room(cpi) == IF InUse \/ cpi # None THEN MaxShared ELSE MaxOutputs

MintTo ==
    \E s \in Holder \cup Admin, m \in Mint,
       sum \in 0 .. Unminted,
       lamports \in 0 .. MaxLamports - Lamports(accounts) :
    \E outs \in OutputsOf(Room(None), sum, lamports) : process_mint_to(s, m, outs)

Transfer ==
    \E cpi \in Contexts, h \in Holder, m \in Mint : \E dt \in DelegatedTransfers(h) :
    \E ins \in Inputs(Source(cpi), h, dt, m, "Initialized") : \E c \in Compressions(h, m, ins) :
    \E sum \in {OutputSum(ins, c)} \cap 0 .. MaxSupply, lamports \in 0 .. Lamports(ins) :
    \E outs \in OutputsOf(Room(cpi), sum, lamports) :
        process_transfer(cpi, h, m, ins, outs, dt, c)

Burn ==
    \E cpi \in Contexts, h \in Holder, m \in Mint, n \in 0 .. MaxSupply :
    \E dt \in DelegatedTransfers(h) :
    \E ins \in Inputs(Source(cpi), h, dt, m, "Initialized") : process_burn(cpi, h, m, ins, n, dt)

Delegation ==
    \E cpi \in Contexts, h \in Holder, m \in Mint :
    \E ins \in Inputs(Source(cpi), h, None, m, "Initialized") :
        \/ \E d \in Holder, n \in 0 .. MaxSupply, l \in 0 .. MaxLamports :
            process_approve(cpi, h, m, ins, d, n, l)
        \/ process_revoke(cpi, h, m, ins)

Freeze ==
    \E cpi \in Contexts, s \in Holder \cup Admin, owner \in Holder, m \in Mint :
        \/ \E ins \in Inputs(Source(cpi), owner, None, m, "Initialized") :
            process_freeze_or_thaw(cpi, s, m, ins, "Frozen")
        \/ \E ins \in Inputs(Source(cpi), owner, None, m, "Frozen") :
            process_freeze_or_thaw(cpi, s, m, ins, "Initialized")

\* Another program caches a part of its own, or executes all parts with its
\* own; token accounts are none of them.
OtherProgram ==
    \E cpi \in Contexts \ {None} :
        process_invoke_cpi(cpi, NoPart) /\ UNCHANGED <<pool, spl, supply>>

Next ==
    \/ \E h \in Holder, m \in Mint : create_token_pool(m, h)
    \/ MintTo
    \/ Transfer
    \/ Burn
    \/ Delegation
    \/ Freeze
    \/ OtherProgram

Spec == Init /\ [][Next]_vars

-----------------------------------------------------------------------------
\* The tokens of the accounts of a bag that are in S.
Held(bag, S) == SumFunctionOnSet(Worth(bag), S)

\* The accounts of a mint, and those of an owner among them with a delegate,
\* if any, that is not in D
OfMint(bag, m) == {a \in DOMAIN bag : a.mint = m}
NotDelegated(bag, m, owner, D) == {a \in OfMint(bag, m) : a.owner = owner /\ a.delegate \notin D}
Frozen(bag, m) == [a \in {b \in OfMint(bag, m) : b.state = "Frozen"} |-> bag[a]]

\* The pool of every mint holds exactly the tokens of its compressed accounts
\* and what instructions moved that were cached and not executed, whatever
\* instructions of owners, delegates and authorities are mixed; and no token of
\* the mint is anywhere else.  So once all parts are executed every compressed
\* token can be decompressed and none is stranded.
PoolBacksTokens ==
    \A m \in Mint :
        LET held == Held(accounts, OfMint(accounts, m))
        IN  /\ IF pool[m] = None THEN held = 0 /\ unsettled[m] = 0
               ELSE pool[m] = held + unsettled[m]
            /\ supply[m] = held + unsettled[m] + SumFunctionOnSet(spl[m], Holder \cup Admin)

\* What a holder has not delegated to a signer of an instruction, or of a part
\* that it executes, does not get less by that instruction, unless the holder
\* signed it or such a part, for the same fee payer; so a delegate moves or
\* burns at most what was delegated to it, and a revoked or replaced delegation
\* is worth nothing.
DelegateBound ==
    [][\A m \in Mint, h \in Holder :
        h \notin signers' => Held(accounts', NotDelegated(accounts', m, h, signers'))
                                >= Held(accounts, NotDelegated(accounts, m, h, signers'))]_vars

\* Frozen accounts stay as they are, delegate and lamports included, until the
\* freeze authority thaws them, itself or in a part that it signed for the
\* fee payer who has it executed.
FrozenStays ==
    [][\A m \in Mint :
        FreezeAuthority[m] \notin signers' => Frozen(accounts', m) = Frozen(accounts, m)]_vars
=============================================================================
