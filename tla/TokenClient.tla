---------------------------- MODULE TokenClient ----------------------------
(***************************************************************************)
(* The clients of the compressed-token program: js/compressed-token        *)
(* (program.ts, instructions, actions), the Rust sdk modules beside the    *)
(* program, the helpers of test-utils/src/spl.rs that use them, and the    *)
(* token actions of test-utils/src/e2e_test_env.rs that use those.         *)
(*                                                                         *)
(* A client lists the token accounts of an owner, picks inputs, computes   *)
(* the outputs and packs both into instruction data, in which trees,       *)
(* queues and delegates are indices into a list of remaining accounts.     *)
(* The program rebuilds the token data of the inputs from that data; the   *)
(* proof that comes along is for the accounts the client picked.  One tree *)
(* and one queue are enough here: where outputs go is SystemProgram's      *)
(* business.                                                               *)
(***************************************************************************)
EXTENDS CompressedToken, RemainingAccounts

CONSTANTS StateTree, NullifierQueue     \* keys among the remaining accounts

-----------------------------------------------------------------------------
\* What the program makes of the instruction data.

\* remaining_accounts[delegate_index]
DelegateOf(input, remaining) ==
    IF input.delegate_index = None THEN None ELSE remaining[input.delegate_index]

\* get_input_compressed_accounts_with_merkle_context_and_check_signer: the
\* token data that is hashed for an input.
InputTokenData(ix, signer_key, state) ==
    [i \in DOMAIN ix.inputs |->
        LET input == ix.inputs[i]
        IN  TokenData(ix.mint,
                      IF input.delegate_index = None \/ ix.delegated_transfer = None
                      THEN signer_key ELSE ix.delegated_transfer.owner,
                      input.amount, DelegateOf(input, ix.remaining), state, input.lamports)]

\* The convenience check of the signer, and the proof for the accounts picked.
Proved(ix, signer_key, state, picked) ==
    /\ ix.delegated_transfer # None =>
            \A i \in DOMAIN ix.inputs :
                ix.inputs[i].delegate_index # None => DelegateOf(ix.inputs[i], ix.remaining) = signer_key
    /\ InputTokenData(ix, signer_key, state) = picked

\* The instruction data, with the authority among its accounts
Instruction(authority, mint, packed, delegated_transfer) ==
    [authority |-> authority, mint |-> mint, inputs |-> packed.inputs,
     remaining |-> packed.remaining, delegated_transfer |-> delegated_transfer]

\* A transfer instruction, with the accounts that its proof is for
Request(ix, picked, outs, compression) ==
    [ix |-> ix, picked |-> picked, outs |-> outs, compression |-> compression]

Accepted(r) ==
    /\ Proved(r.ix, r.ix.authority, "Initialized", r.picked)
    /\ TransferChecks(r.ix.authority, r.ix.mint, ToBag(r.picked), r.outs,
                      r.ix.delegated_transfer, r.compression)

Send(r) ==
    /\ Accepted(r)
    /\ process_transfer(None, r.ix.authority, r.ix.mint, ToBag(r.picked), r.outs,
                        r.ix.delegated_transfer, r.compression)

-----------------------------------------------------------------------------
\* js/compressed-token/src/instructions and program.ts

PackedInput(a, remaining, delegate) ==
    [amount |-> a.amount, lamports |-> a.lamports,
     delegate_index |-> IF delegate = None THEN None ELSE IndexOf(remaining, delegate)]

\* packCompressedTokenAccounts: all inputs get the delegate of the first one.
packCompressedTokenAccounts(ins, outs) ==
    LET delegate == IF ins = <<>> THEN None ELSE ins[1].delegate
        keys == (IF delegate = None THEN <<>> ELSE <<delegate>>)
                    \o FlattenSeq([i \in DOMAIN ins |-> <<StateTree, NullifierQueue>>])
                    \o [i \in DOMAIN outs |-> StateTree]
        remaining == AddAll(<<>>, keys)
    IN  [remaining |-> remaining,
         inputs |-> [i \in DOMAIN ins |-> PackedInput(ins[i], remaining, delegate)]]

sumUpTokenAmount(ins) == Amount(ToBag(ins))
sumUpLamports(ins) == Lamports(ToBag(ins))
validateSameTokenOwner(ins) == \A i \in DOMAIN ins : ins[i].owner = ins[1].owner
OutputState(owner, amount, lamports) == [owner |-> owner, amount |-> amount, lamports |-> lamports]

\* createTransferOutputState: the change keeps the lamports.
createTransferOutputState(ins, to, amount) ==
    LET change == sumUpTokenAmount(ins) - amount
    IN  IF change = 0 /\ sumUpLamports(ins) = 0
        THEN <<OutputState(to, amount, 0)>>
        ELSE <<OutputState(ins[1].owner, change, sumUpLamports(ins)), OutputState(to, amount, 0)>>

\* Mutant: the change account is left out whenever no tokens are left.
DecompressDropsLamports(ins, amount) ==
    LET change == sumUpTokenAmount(ins) - amount
    IN  IF change = 0 THEN <<>>
        ELSE <<OutputState(ins[1].owner, change, sumUpLamports(ins))>>

createDecompressOutputState(ins, amount) ==
    LET change == sumUpTokenAmount(ins) - amount
    IN  IF change = 0 /\ sumUpLamports(ins) = 0 THEN <<>>
        ELSE <<OutputState(ins[1].owner, change, sumUpLamports(ins))>>

\* parseTokenData: mint and authority are those of the first input.
ParsedInstruction(ins, outs) ==
    Instruction(ins[1].owner, ins[1].mint, packCompressedTokenAccounts(ins, outs), None)

\* CompressedTokenProgram.transfer
transferInstruction(ins, to, amount) ==
    LET outs == createTransferOutputState(ins, to, amount)
    IN  Request(ParsedInstruction(ins, outs), ins, outs, None)

\* CompressedTokenProgram.decompress
decompressInstruction(ins, to, amount) ==
    LET outs == createDecompressOutputState(ins, amount)
    IN  Request(ParsedInstruction(ins, outs), ins, outs,
                [is_compress |-> FALSE, amount |-> amount, account |-> to])

\* CompressedTokenProgram.compress: one amount per recipient
compressInstruction(owner, mint, toAddress, amounts) ==
    LET outs == [i \in DOMAIN amounts |-> OutputState(toAddress[i], amounts[i], 0)]
    IN  Request(Instruction(owner, mint, packCompressedTokenAccounts(<<>>, outs), None),
                <<>>, outs,
                [is_compress |-> TRUE, amount |-> sumUpTokenAmount(outs), account |-> owner])

\* CompressedTokenProgram.mintTo
mintToInstruction(authority, mint, toPubkeys, amounts) ==
    /\ Len(amounts) = Len(toPubkeys)
    /\ process_mint_to(authority, mint,
                       [i \in DOMAIN amounts |-> OutputState(toPubkeys[i], amounts[i], 0)])

\* CompressedTokenProgram.approveAndMintTo: an SPL mint to the authority's
\* token account, and its compression, in one transaction
approveAndMintToInstruction(authority, mint, to, amount) ==
    LET created == create_output_compressed_accounts(mint, <<OutputState(to, amount, 0)>>, None, {})
    IN  /\ authority = MintAuthority[mint] /\ pool[mint] # None
        /\ Bounded(accounts (+) created)
        /\ supply' = [supply EXCEPT ![mint] = @ + amount]
        /\ pool' = [pool EXCEPT ![mint] = @ + amount]
        /\ accounts' = accounts (+) created
        /\ signers' = {authority}
        /\ UNCHANGED <<spl, context, unsettled>>

\* CompressedTokenProgram.createTokenPool
createTokenPool(feePayer, mint) == create_token_pool(mint, feePayer)

-----------------------------------------------------------------------------
\* js/compressed-token/src/actions

\* getCompressedTokenAccountsByOwner: the accounts in any order that
\* selectMinCompressedTokenAccountsForTransfer may sort them to
getCompressedTokenAccountsByOwner(owner, mint) ==
    LET items == [a \in {b \in DOMAIN accounts : b.owner = owner /\ b.mint = mint} |-> accounts[a]]
    IN  {s \in [1 .. BagCardinality(items) -> DOMAIN items] :
            ToBag(s) = items /\ IsSorted(s, LAMBDA a, b : a.amount >= b.amount)}

\* The shortest prefix that is worth the amount
selectMinCompressedTokenAccountsForTransfer(items, amount) ==
    SubSeq(items, 1, Min({n \in 0 .. Len(items) : sumUpTokenAmount(SubSeq(items, 1, n)) >= amount}))

\* The inputs that a client call picks; it throws if the owner has too little.
Picked(owner, mint, amount) ==
    {selectMinCompressedTokenAccountsForTransfer(items, amount)
        : items \in {s \in getCompressedTokenAccountsByOwner(owner, mint) :
                        sumUpTokenAmount(s) >= amount}}

transfer(owner, mint, to, amount) ==
    \E ins \in Picked(owner, mint, amount) :
        ins # <<>> /\ validateSameTokenOwner(ins) /\ Send(transferInstruction(ins, to, amount))

decompress(owner, mint, to, amount) ==
    \E ins \in Picked(owner, mint, amount) :
        ins # <<>> /\ validateSameTokenOwner(ins) /\ Send(decompressInstruction(ins, to, amount))

compress(owner, mint, toAddress, amounts) ==
    Len(amounts) = Len(toAddress) /\ Send(compressInstruction(owner, mint, toAddress, amounts))

mintTo(authority, mint, toPubkeys, amounts) == mintToInstruction(authority, mint, toPubkeys, amounts)

\* The authority's associated token account is created if needed.
approveAndMintTo(authority, mint, to, amount) ==
    approveAndMintToInstruction(authority, mint, to, amount)

createMint(payer, mint) == createTokenPool(payer, mint)

-----------------------------------------------------------------------------
\* The sdk modules of the program

\* create_input_output_and_remaining_accounts: every key gets the next index
\* when it is met first, and every input its own delegate.
create_input_output_and_remaining_accounts(additional, ins, outs) ==
    LET keys == additional
                \o FlattenSeq([i \in DOMAIN ins |->
                        <<StateTree>> \o IF ins[i].delegate = None THEN <<>> ELSE <<ins[i].delegate>>])
                \o [i \in DOMAIN ins |-> NullifierQueue] \o [i \in DOMAIN outs |-> StateTree]
        remaining == AddAll(<<>>, keys)
    IN  [remaining |-> remaining,
         inputs |-> [i \in DOMAIN ins |-> PackedInput(ins[i], remaining, ins[i].delegate)]]

\* create_inputs_and_remaining_accounts panics on an input of another delegate.
create_inputs_and_remaining_accounts(ins, outs, delegate) ==
    create_input_output_and_remaining_accounts(
        IF delegate = None THEN <<>> ELSE <<delegate>>, ins, outs)
SameDelegate(ins, delegate) ==
    delegate # None => \A i \in DOMAIN ins : ins[i].delegate \in {None, delegate}

\* create_transfer_instruction
create_transfer_instruction(owner, ins, outs, mint, delegate, index) ==
    Instruction(IF delegate = None THEN owner ELSE delegate, mint,
                create_inputs_and_remaining_accounts(ins, outs, delegate),
                IF delegate = None THEN None ELSE [owner |-> ins[1].owner, index |-> index])

\* create_burn_instruction: the change of a delegate's burn stays delegated.
create_burn_instruction(authority, ins, signer_is_delegate) ==
    Instruction(authority, ins[1].mint,
                create_input_output_and_remaining_accounts(<<StateTree>>, ins, <<>>),
                IF signer_is_delegate THEN [owner |-> ins[1].owner, index |-> 1] ELSE None)

\* create_approve_instruction, with the trees of both outputs
create_approve_instruction(authority, ins) ==
    Instruction(authority, ins[1].mint,
                create_input_output_and_remaining_accounts(<<StateTree, StateTree>>, ins, <<>>), None)

create_revoke_instruction(authority, ins) ==
    Instruction(authority, ins[1].mint,
                create_input_output_and_remaining_accounts(<<StateTree>>, ins, <<>>), None)

\* sdk::create_instruction of freeze.rs, for both directions
create_freeze_instruction(authority, ins) ==
    Instruction(authority, ins[1].mint,
                create_input_output_and_remaining_accounts(<<StateTree>>, ins, <<>>), None)

create_mint_to_instruction(authority, mint, public_keys, amounts, lamports) ==
    process_mint_to(authority, mint,
        [i \in DOMAIN amounts |-> OutputState(public_keys[i], amounts[i], lamports)])

-----------------------------------------------------------------------------
\* test-utils/src/spl.rs: the helpers take the input accounts as arguments.

\* create_initialize_mint_instructions: the pool comes with the mint, whose
\* authorities are the payer.
create_initialize_mint_instructions(payer, mint) == create_token_pool(mint, payer)
create_mint_helper(payer, mint) == create_initialize_mint_instructions(payer, mint)

mint_tokens_helper_with_lamports(authority, mint, amounts, recipients, lamports) ==
    create_mint_to_instruction(authority, mint, recipients, amounts, lamports)

\* The change, if tokens are left, goes to from, and comes last.
compressed_transfer_test(from, mint, recipients, amounts, lamports, ins, delegate, index) ==
    LET paid == [i \in DOMAIN recipients |->
                    OutputState(recipients[i], amounts[i], IF i = 1 THEN lamports ELSE 0)]
        change == sumUpTokenAmount(ins) - sumUpTokenAmount(paid)
        outs == paid \o IF change > 0 THEN <<OutputState(from, change, 0)>> ELSE <<>>
    IN  /\ ins # <<>> /\ change >= 0 /\ SameDelegate(ins, delegate)
        /\ Send(Request(create_transfer_instruction(from, ins, outs, mint, delegate, index),
                        ins, outs, None))

decompress_test(owner, ins, amount, recipient) ==
    LET outs == <<OutputState(owner, sumUpTokenAmount(ins) - amount, 0)>>
    IN  /\ ins # <<>> /\ sumUpTokenAmount(ins) >= amount
        /\ Send(Request(create_transfer_instruction(owner, ins, outs, ins[1].mint, None, None), ins, outs,
                        [is_compress |-> FALSE, amount |-> amount, account |-> recipient]))

compress_test(owner, mint, amount) ==
    LET outs == <<OutputState(owner, amount, 0)>>
    IN  Send(Request(create_transfer_instruction(owner, <<>>, outs, mint, None, None), <<>>, outs,
                     [is_compress |-> TRUE, amount |-> amount, account |-> owner]))

approve_test(authority, ins, delegated_amount, delegate_lamports, delegate) ==
    /\ ins # <<>>
    /\ Proved(create_approve_instruction(authority, ins), authority, "Initialized", ins)
    /\ process_approve(None, authority, ins[1].mint, ToBag(ins), delegate, delegated_amount, delegate_lamports)

revoke_test(authority, ins) ==
    /\ ins # <<>>
    /\ Proved(create_revoke_instruction(authority, ins), authority, "Initialized", ins)
    /\ process_revoke(None, authority, ins[1].mint, ToBag(ins))

\* The hashed owner is that of the first input, not the freeze authority.
freeze_or_thaw_test(authority, ins, FREEZE) ==
    /\ ins # <<>>
    /\ Proved(create_freeze_instruction(authority, ins), ins[1].owner,
              IF FREEZE THEN "Initialized" ELSE "Frozen", ins)
    /\ process_freeze_or_thaw(None, authority, ins[1].mint, ToBag(ins),
                              IF FREEZE THEN "Frozen" ELSE "Initialized")

create_burn_test_instruction(authority, ins, signer_is_delegate) ==
    create_burn_instruction(authority, ins, signer_is_delegate)

burn_test(authority, ins, burn_amount, signer_is_delegate) ==
    LET ix == create_burn_test_instruction(authority, ins, signer_is_delegate)
    IN  /\ ins # <<>>
        /\ Proved(ix, authority, "Initialized", ins)
        /\ process_burn(None, authority, ix.mint, ToBag(ins), burn_amount, ix.delegated_transfer)

-----------------------------------------------------------------------------
\* test-utils/src/e2e_test_env.rs: the actions pick the inputs themselves.

\* select_random_compressed_token_accounts_delegated: some accounts of the
\* user and a mint, fewer than all of them and fewer than 4 unless there is
\* only one, without dust.  They are sorted by tree: here in any order.
select_random_compressed_token_accounts(user, mint, delegated, frozen) ==
    LET eligible == {a \in DOMAIN accounts :
                        /\ a.owner = user /\ a.mint = mint /\ a.amount > 0
                        /\ delegated => a.delegate # None
                        /\ a.state = IF frozen THEN "Frozen" ELSE "Initialized"}
        items == [a \in eligible |-> accounts[a]]
        size == BagCardinality(items)
        sizes == IF size = 1 THEN {1} ELSE 1 .. Min({size, 4}) - 1
    IN  UNION {{s \in [1 .. n -> eligible] : ToBag(s) \sqsubseteq items} : n \in sizes}

\* An action that finds no account mints tokens to the user first, in a
\* transaction of its own.
MintFirst(user, mint, found) ==
    /\ found = {}
    /\ \E a \in Admin, n \in 1 .. Unminted :
        mint_tokens_helper_with_lamports(a, mint, <<n>>, <<user>>, 0)

\* A recipient for every input; the amounts differ by one.
transfer_spl(user, mint) ==
    LET found == select_random_compressed_token_accounts(user, mint, FALSE, FALSE)
    IN  \/ MintFirst(user, mint, found)
        \/ \E ins \in found : \E to \in [DOMAIN ins -> Holder], n \in 1 .. sumUpTokenAmount(ins) :
            LET equal == n \div Len(ins)
            IN  /\ equal >= Len(ins) - 1
                /\ compressed_transfer_test(user, mint, to, [i \in DOMAIN ins |-> equal - (i - 1)],
                                            0, ins, None, None)

approve_spl(user, mint, delegate) ==
    LET found == select_random_compressed_token_accounts(user, mint, FALSE, FALSE)
    IN  \/ MintFirst(user, mint, found)
        \/ \E ins \in found : \E n \in 0 .. sumUpTokenAmount(ins) - 1 :
            approve_test(user, ins, n, 0, delegate)

\* With no delegated account, tokens are minted and approved first.
revoke_spl(user, mint) ==
    LET found == select_random_compressed_token_accounts(user, mint, TRUE, FALSE)
    IN  \/ MintFirst(user, mint, found)
        \/ \E ins \in found : revoke_test(user, ins)

burn_spl(user, mint) ==
    LET found == select_random_compressed_token_accounts(user, mint, FALSE, FALSE)
    IN  \/ MintFirst(user, mint, found)
        \/ \E ins \in found : \E n \in 0 .. sumUpTokenAmount(ins) - 1 :
            burn_test(user, ins, n, FALSE)

freeze_spl(user, mint) ==
    LET found == select_random_compressed_token_accounts(user, mint, FALSE, FALSE)
    IN  \/ MintFirst(user, mint, found)
        \/ \E a \in Admin, ins \in found : freeze_or_thaw_test(a, ins, TRUE)

\* With no frozen account, freeze_spl is called first.
thaw_spl(user, mint) ==
    \E a \in Admin, ins \in select_random_compressed_token_accounts(user, mint, FALSE, TRUE) :
        freeze_or_thaw_test(a, ins, FALSE)

compress_spl(user, mint) == \E n \in 1 .. spl[mint][user] : compress_test(user, mint, n)

decompress_spl(user, mint) ==
    LET found == select_random_compressed_token_accounts(user, mint, FALSE, FALSE)
    IN  \/ MintFirst(user, mint, found)
        \/ \E ins \in found : \E n \in 1 .. sumUpTokenAmount(ins) : decompress_test(user, ins, n, user)

\* activate_keypair_actions
E2eNext ==
    \E user \in Holder, mint \in Mint :
        \/ compress_spl(user, mint)
        \/ decompress_spl(user, mint)
        \/ transfer_spl(user, mint)
        \/ \E delegate \in Holder : approve_spl(user, mint, delegate)
        \/ revoke_spl(user, mint)
        \/ burn_spl(user, mint)
        \/ freeze_spl(user, mint)
        \/ thaw_spl(user, mint)

-----------------------------------------------------------------------------
\* The lists of accounts a helper may be given: some accounts of a mint
Listed(mint) ==
    UNION {{s \in [1 .. n -> {a \in DOMAIN accounts : a.mint = mint}] : ToBag(s) \sqsubseteq accounts}
            : n \in 1 .. MaxAccounts}
Supply == 1 .. MaxSupply

JsNext ==
    \/ \E h \in Holder, m \in Mint : createMint(h, m)
    \/ \E h, to \in Holder, m \in Mint, n \in Supply :
        \/ transfer(h, m, to, n)
        \/ decompress(h, m, to, n)
    \/ \E h \in Holder, m \in Mint : \E n \in 1 .. spl[m][h] :
        \E amounts \in {<<n>>} \cup {<<k, n - k>> : k \in 1 .. n - 1} :
        \E to \in [DOMAIN amounts -> Holder] : compress(h, m, to, amounts)
    \/ \E a \in Admin, m \in Mint, to \in Holder : \E n \in 1 .. Unminted :
        \/ mintTo(a, m, <<to>>, <<n>>)
        \/ approveAndMintTo(a, m, to, n)

HelperNext ==
    \/ \E a \in Admin, m \in Mint : create_mint_helper(a, m)
    \/ \E a \in Admin, m \in Mint, h \in Holder : \E n \in 1 .. Unminted :
        \E l \in 0 .. MaxLamports - Lamports(accounts) :
            mint_tokens_helper_with_lamports(a, m, <<n>>, <<h>>, l)
    \/ \E h \in Holder, m \in Mint : \E n \in 1 .. spl[m][h] : compress_test(h, m, n)
    \/ \E m \in Mint : \E ins \in Listed(m), h, to \in Holder :
        \/ \E n \in Supply, l \in 0 .. MaxLamports, d \in {None} \cup Holder, index \in {None, 2} :
            compressed_transfer_test(h, m, <<to>>, <<n>>, l, ins, d, index)
        \/ \E n \in Supply : decompress_test(h, ins, n, to)
        \/ \E n \in Supply, l \in 0 .. MaxLamports : approve_test(h, ins, n, l, to)
    \/ \E m \in Mint : \E ins \in Listed(m), h \in Holder \cup Admin :
        \/ revoke_test(h, ins)
        \/ \E FREEZE \in BOOLEAN : freeze_or_thaw_test(h, ins, FREEZE)
        \/ \E n \in Supply, d \in BOOLEAN : burn_test(h, ins, n, d)

\* Clients never pass a CPI context.  Bound: what they build while parts are
\* cached is sent as an instruction of Next, which does the same.
ClientNext == Next \/ (~InUse /\ (JsNext \/ HelperNext \/ E2eNext))

ClientSpec == Init /\ [][ClientNext]_vars
=============================================================================
