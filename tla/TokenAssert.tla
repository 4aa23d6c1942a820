---------------------------- MODULE TokenAssert ----------------------------
(***************************************************************************)
(* What the token helpers of test-utils/src/spl.rs expect of the           *)
(* transactions they send, and how test-utils/src/assert_token_tx.rs       *)
(* looks for it among the accounts created.  A helper computes its         *)
(* expectation from the inputs and its own arguments, independently of the *)
(* program.                                                                *)
(***************************************************************************)
EXTENDS TokenClient

\* TokenTransferOutputData with the entries of the vectors delegates and
\* lamports that belong to it
Expected(owner, amount, delegate, lamports) ==
    [owner |-> owner, amount |-> amount, delegate |-> delegate, lamports |-> lamports]

\* create_expected_token_output_data: state and mint are dropped.
create_expected_token_output_data(token_data) ==
    [i \in DOMAIN token_data |->
        Expected(token_data[i].owner, token_data[i].amount, token_data[i].delegate,
                 token_data[i].lamports)]

\* assert_compressed_token_accounts searches the whole indexer by owner,
\* amount and delegate; here the accounts of the transaction, which is where
\* it looks as long as no older account has the same three.
assert_compressed_token_accounts(expected, created) ==
    \A i \in DOMAIN expected :
        \E a \in DOMAIN created :
            /\ a.owner = expected[i].owner /\ a.amount = expected[i].amount
            /\ a.delegate = expected[i].delegate /\ a.lamports = expected[i].lamports

\* assert_transfer: the outputs.  The nullifiers, the tree and the event are
\* checked as in SystemClient.
assert_transfer(expected, created) == assert_compressed_token_accounts(expected, created)

\* assert_mint_to takes the accounts it has found out of the list.
assert_mint_to(recipients, mint, amounts, created) ==
    ToBag([i \in DOMAIN recipients |-> <<recipients[i], amounts[i]>>])
        \sqsubseteq BagOfAll(LAMBDA a : <<a.owner, a.amount>>,
                             [a \in {b \in DOMAIN created : b.mint = mint /\ b.delegate = None}
                                |-> created[a]])

-----------------------------------------------------------------------------
\* The expectations.

\* compressed_transfer_test without lamports of its own: the outputs it sent,
\* one of them delegated to the payer
compressed_transfer_expected(outs, payer, index) ==
    [i \in DOMAIN outs |->
        Expected(outs[i].owner, outs[i].amount, IF i = index THEN payer ELSE None, 0)]

decompress_expected(owner, ins, amount) ==
    <<Expected(owner, sumUpTokenAmount(ins) - amount, None, 0)>>

compress_expected(owner, amount) == <<Expected(owner, amount, None, 0)>>

\* approve_test: a change account is expected only if tokens are left.
approve_expected(authority, ins, delegated_amount, delegate_lamports, delegate) ==
    LET Token(amount, to, lamports) ==
            TokenData(ins[1].mint, authority, amount, to, "Initialized", lamports)
        change == sumUpTokenAmount(ins) - delegated_amount
    IN  create_expected_token_output_data(
            <<Token(delegated_amount, delegate, delegate_lamports)>>
                \o IF change = 0 THEN <<>>
                   ELSE <<Token(change, None, sumUpLamports(ins) - delegate_lamports)>>)

revoke_expected(authority, ins) ==
    create_expected_token_output_data(
        <<TokenData(ins[1].mint, authority, sumUpTokenAmount(ins), None, "Initialized",
                    sumUpLamports(ins))>>)

\* freeze_or_thaw_test: the owner is that of the first input.
freeze_or_thaw_expected(ins, FREEZE) ==
    create_expected_token_output_data(
        [i \in DOMAIN ins |->
            TokenData(ins[1].mint, ins[1].owner, ins[i].amount, ins[i].delegate,
                      IF FREEZE THEN "Frozen" ELSE "Initialized", ins[i].lamports)])

\* burn_test expects nothing if no tokens are left.
burn_expected(authority, ins, burn_amount, signer_is_delegate) ==
    LET output_amount == sumUpTokenAmount(ins) - burn_amount
    IN  IF output_amount = 0 THEN <<>>
        ELSE create_expected_token_output_data(
                <<TokenData(ins[1].mint, ins[1].owner, output_amount,
                            IF signer_is_delegate THEN authority ELSE None, "Initialized",
                            sumUpLamports(ins))>>)

-----------------------------------------------------------------------------
Spendable(ins) == \A i \in DOMAIN ins : ins[i].state = "Initialized"

\* The expectations agree with what the program creates from the same
\* inputs, all accounts of an owner and mint.
OwnerAssertionsHold(h, m, ins) ==
    LET all == ToBag(ins)
        Create(outs, delegate, is_delegate) ==
            create_output_compressed_accounts(m, outs, delegate, is_delegate)
    IN  /\ assert_transfer(revoke_expected(h, ins), Create(RevokeOutputs(h, all), None, {}))
        /\ assert_transfer(freeze_or_thaw_expected(ins, TRUE),
                           create_token_output_accounts(all, "Frozen"))
        /\ \A n \in 0 .. Amount(all) :
            /\ assert_transfer(burn_expected(h, ins, n, FALSE), Create(BurnOutputs(h, all, n), h, {}))
            /\ assert_transfer(decompress_expected(h, ins, n),
                               Create(<<OutputState(h, Amount(all) - n, 0)>>, None, {}))
            /\ \A l \in 0 .. Lamports(all), d \in Holder :
                assert_transfer(approve_expected(h, ins, n, l, d),
                                Create(ApproveOutputs(h, all, n, l), d, {1}))

\* So do those of a delegate, and of outputs that are made from no inputs.
OutputAssertionsHold(h, m) ==
    \A to \in Holder, n \in Supply :
        LET outs == <<OutputState(to, n, 0)>>
        IN  /\ assert_mint_to(<<to>>, m, <<n>>, create_output_compressed_accounts(m, outs, None, {}))
            /\ assert_transfer(compress_expected(to, n),
                               create_output_compressed_accounts(m, outs, None, {}))
            /\ \A index \in {None, 1} :
                assert_transfer(compressed_transfer_expected(outs, h, index),
                                create_output_compressed_accounts(m, outs, h,
                                    IsDelegate([owner |-> to, index |-> index])))

\* Whatever was minted, split, delegated, merged or frozen and thawed before,
\* the program accepts what the clients build from it: the owner's revocation of
\* any of its accounts, with different delegates too, and a transfer or
\* decompression of the js client exactly when none of the accounts it picks is
\* frozen and all have the same delegate or none, since the client packs the
\* delegate of the first for all; a decompression also needs the tokens in the
\* pool, which cached instructions may have taken.  Packing and unpacking agree,
\* the outputs balance the tokens and the lamports of the inputs, and the hashes
\* are the ones proved.  The accounts that the program creates are the ones that
\* the test helpers assert.
RequestsAccepted ==
    \A h \in Holder, m \in Mint :
        /\ OutputAssertionsHold(h, m)
        /\ \A items \in getCompressedTokenAccountsByOwner(h, m) :
            items # <<>> /\ Spendable(items) =>
                /\ Proved(create_revoke_instruction(h, items), h, "Initialized", items)
                /\ sumUpLamports(items) = sumUpLamports(RevokeOutputs(h, ToBag(items)))
                /\ OwnerAssertionsHold(h, m, items)
        /\ \A n \in Supply : \A ins \in Picked(h, m, n) :
            LET fine == Spendable(ins) /\ Cardinality({ins[i].delegate : i \in DOMAIN ins}) = 1
            IN  \A to \in Holder :
                    /\ Accepted(transferInstruction(ins, to, n)) <=> fine
                    /\ Accepted(decompressInstruction(ins, to, n)) <=> fine /\ n <= pool[m]
=============================================================================
