------------------------------ MODULE CpiTest ------------------------------
(***************************************************************************)
(* test-programs/system-cpi-test: a program that invokes the system        *)
(* program by CPI, correctly and in the ways that have to fail.  A CPI     *)
(* names the invoking program, an authority that has signed, and the seeds *)
(* from which the authority is derived; only a program can sign for        *)
(* addresses derived from itself.                                          *)
(*                                                                         *)
(* With a token account, the test program first has the token program      *)
(* cache its part and then executes it with a part of its own, in one      *)
(* transaction: pending is what is still to be invoked.  If that fails,    *)
(* the CPI context account is as it was before.  Any program of the model  *)
(* may play the test program, and any other one the token program.         *)
(***************************************************************************)
EXTENDS CpiContext

CONSTANT MaxLeaves      \* bound: leaves that other programs' instructions leave behind

ASSUME CpiTestAssumption ==
    /\ Payer \cap Program = {}
    /\ None \notin [set_context : BOOLEAN, first_set_context : BOOLEAN]

VARIABLE pending        \* second invocation of the transaction, or None

testVars == <<vars, pending>>

-----------------------------------------------------------------------------
\* find_program_address: derivation is ideal.
derive(seed, program) == <<seed, program>>
\* The key of a user, which no derivation yields
keypair(user) == <<"keypair", user>>

\* InstructionDataInvokeCpi with the accounts of an InvokeCpiInstruction;
\* account says whether the CPI context account is among them.
CpiCall(seed, invoking_program, authority, fee_payer, ix, cpi_context, account) ==
    [seed |-> seed, invoking_program |-> invoking_program, authority |-> authority,
     fee_payer |-> fee_payer, ix |-> ix, cpi_context |-> cpi_context, account |-> account]

Set == [set_context |-> TRUE, first_set_context |-> TRUE]
Execute == [set_context |-> FALSE, first_set_context |-> FALSE]

\* cpi_signer_check
cpi_signer_check(c) == derive(c.seed, c.invoking_program) = c.authority

\* CpiContextMissing and CpiContextAccountUndefined
ContextDefined(c) == c.account <=> c.cpi_context # None

Sets(c) == c.cpi_context # None /\ c.cpi_context.set_context
Executes(c) == c.cpi_context # None /\ ~c.cpi_context.set_context

\* process_invoke_cpi returns no error.
InvokeCpiAccepts(c) ==
    /\ cpi_signer_check(c) /\ cpi_signer_checks(c.ix, c.invoking_program)
    /\ ContextDefined(c)
    /\ c.cpi_context = None => Valid(c.ix, c.invoking_program)
    /\ Sets(c) => AssociatedTree(c.ix) /\ MaySet(c.fee_payer, c.cpi_context.first_set_context)
    /\ Executes(c) => /\ AssociatedTree(c.ix) /\ MayExecute(c.fee_payer)
                      /\ Valid(combine(c.ix, cpi_context_account.context), c.invoking_program)

\* What is executed: nothing where a first part is cached
Executed(c) ==
    IF Sets(c) THEN InvokeInstruction(<<>>, <<>>, <<>>, None, c.ix.remaining)
    ELSE IF Executes(c) THEN combine(c.ix, cpi_context_account.context)
    ELSE c.ix

\* process_invoke_cpi
process_invoke_cpi(c) ==
    /\ InvokeCpiAccepts(c)
    /\ Commit(Executed(c))
    /\ cpi_context_account' =
        IF Sets(c) THEN [fee_payer |-> c.fee_payer,
                         context |-> <<Cleaned(c.ix, c.invoking_program, c.fee_payer)>>]
        ELSE IF Executes(c) THEN [fee_payer |-> NoPayer, context |-> <<>>]
        ELSE cpi_context_account
    /\ caller' = c.invoking_program

-----------------------------------------------------------------------------
\* create_pda.rs

CreatePdaMode ==
    {"ProgramIsSigner", "ProgramIsNotSigner", "InvalidSignerSeeds", "InvalidInvokingProgram",
     "WriteToAccountNotOwned", "NoData"}

\* create_compressed_pda_data: an account with data and a new address
create_compressed_pda_data(address, owner_program) ==
    [merkle_tree_index |-> 0, owner |-> owner_program, lamports |-> 0, address |-> address,
     data |-> TRUE]

\* create_pda_instruction: the output tree is the first remaining account.
create_pda_instruction(tree, address, compressed_pda) ==
    InvokeInstruction(<<>>, <<compressed_pda>>, <<address>>, None, <<tree>>)

\* cpi_compressed_pda_transfer_as_non_program: the user signs.
cpi_compressed_pda_transfer_as_non_program(self, signer, ix) ==
    CpiCall("no_seeds", self, keypair(signer), signer, ix, None, FALSE)

\* cpi_compressed_pda_transfer_as_program: what is wrong with the call
\* depends on the mode, the authority is right.
cpi_compressed_pda_transfer_as_program(self, signer, ix, mode) ==
    CpiCall(IF mode = "InvalidSignerSeeds" THEN "cpi_signer1" ELSE "cpi_signer",
            IF mode = "InvalidInvokingProgram" THEN signer ELSE self,
            derive("cpi_signer", self), signer,
            CASE mode = "WriteToAccountNotOwned" -> [ix EXCEPT !.outputs = <<[ix.outputs[1] EXCEPT !.owner = signer]>>]
              [] mode = "NoData"                 -> [ix EXCEPT !.outputs = <<[ix.outputs[1] EXCEPT !.data = FALSE]>>]
              [] OTHER                           -> ix,
            None, FALSE)

process_create_pda(self, signer, tree, address, mode) ==
    LET ix == create_pda_instruction(tree, address, create_compressed_pda_data(address, self))
    IN  IF mode = "ProgramIsNotSigner"
        THEN cpi_compressed_pda_transfer_as_non_program(self, signer, ix)
        ELSE cpi_compressed_pda_transfer_as_program(self, signer, ix, mode)

-----------------------------------------------------------------------------
\* invalidate_not_owned_account.rs

\* The modes of a single invocation
InvalidateMode ==
    {"NotOwnedCompressedAccount", "CpiContextMissing", "CpiContextAccountMissing",
     "CpiContextEmpty", "CpiContextInvalidInvokingProgram", "CpiContextInvalidSignerSeeds",
     "CpiContextWriteToNotOwnedAccount"}
\* and those that involve the token program
TokenMode == {"CpiContextFeePayerMismatch", "Approve", "Revoke", "Freeze", "Thaw", "Burn"}

\* create_invalidate_not_owned_account_instruction: the input's tree is the
\* first remaining account.
create_invalidate_not_owned_account_instruction(leaf, outputs) ==
    InvokeInstruction(<<[merkle_tree_index |-> 0, leaf |-> leaf]>>, outputs, <<>>, None, <<leaf.tree>>)

\* An output with the data and the address of an account
Successor(leaf, owner) ==
    [merkle_tree_index |-> 0, owner |-> owner, lamports |-> 0, address |-> leaf.address,
     data |-> leaf.data]

\* process_invalidate_not_owned_compressed_account
process_invalidate_not_owned_compressed_account(self, token, signer, leaf, mode) ==
    CpiCall(IF mode = "CpiContextInvalidSignerSeeds" THEN "cpi_signer1" ELSE "cpi_signer",
            IF mode = "CpiContextInvalidInvokingProgram" THEN signer ELSE self,
            derive("cpi_signer", self), signer,
            create_invalidate_not_owned_account_instruction(leaf,
                IF mode = "CpiContextWriteToNotOwnedAccount" THEN <<Successor(leaf, token)>> ELSE <<>>),
            CASE mode \in {"NotOwnedCompressedAccount", "CpiContextMissing"} -> None
              [] mode = "CpiContextEmpty"                                    -> Execute
              [] OTHER                                                       -> Set,
            mode \notin {"NotOwnedCompressedAccount", "CpiContextAccountMissing"})

\* The CPIs of the token program for cpi_compressed_token_transfer,
\* _approve_revoke, _burn and _freeze_or_thaw: one token account in, one out,
\* cached for a fee payer.
TokenCall(token, fee_payer, leaf) ==
    CpiCall("cpi_authority", token, derive("cpi_authority", token), fee_payer,
            create_invalidate_not_owned_account_instruction(leaf,
                <<[Successor(leaf, token) EXCEPT !.lamports = leaf.lamports]>>),
            Set, TRUE)
cpi_compressed_token_transfer(token, signer, invalid_fee_payer, leaf, mode) ==
    TokenCall(token, IF mode = "CpiContextFeePayerMismatch" THEN invalid_fee_payer ELSE signer, leaf)
cpi_compressed_token_approve_revoke(token, signer, leaf) == TokenCall(token, signer, leaf)
cpi_compressed_token_burn(token, signer, leaf) == TokenCall(token, signer, leaf)
cpi_compressed_token_freeze_or_thaw(token, signer, leaf) == TokenCall(token, signer, leaf)

\* write_into_cpi_account replaces an account of the test program.
write_into_cpi_account(self, signer, leaf) ==
    CpiCall("cpi_signer", self, derive("cpi_signer", self), signer,
            create_invalidate_not_owned_account_instruction(leaf, <<Successor(leaf, self)>>),
            Execute, TRUE)

\* The first invocation of cpi_context_tx
FirstCall(token, signer, invalid_fee_payer, token_leaf, mode) ==
    CASE mode = "CpiContextFeePayerMismatch" ->
            cpi_compressed_token_transfer(token, signer, invalid_fee_payer, token_leaf, mode)
      [] mode \in {"Approve", "Revoke"} ->
            cpi_compressed_token_approve_revoke(token, signer, token_leaf)
      [] mode \in {"Freeze", "Thaw"} ->
            cpi_compressed_token_freeze_or_thaw(token, signer, token_leaf)
      [] mode = "Burn" -> cpi_compressed_token_burn(token, signer, token_leaf)

\* cpi_context_tx, up to the second invocation
cpi_context_tx(self, token, signer, invalid_fee_payer, leaf, token_leaf, mode) ==
    /\ process_invoke_cpi(FirstCall(token, signer, invalid_fee_payer, token_leaf, mode))
    /\ pending' = [call |-> write_into_cpi_account(self, signer, leaf), before |-> cpi_context_account]

-----------------------------------------------------------------------------
\* The accounts of a program
OwnedBy(program) == {l \in Live : l.owner = program}

\* Instruction create_compressed_pda
create_compressed_pda(self) ==
    \E signer \in Payer, t \in Tree, address \in Address \ addresses, mode \in CreatePdaMode :
        /\ process_invoke_cpi(process_create_pda(self, signer, t, address, mode))
        /\ UNCHANGED pending

\* Instruction with_input_accounts
with_input_accounts(self, token) ==
    \E signer \in Payer :
        \/ \E leaf \in OwnedBy(self), mode \in InvalidateMode :
            /\ process_invoke_cpi(
                process_invalidate_not_owned_compressed_account(self, token, signer, leaf, mode))
            /\ UNCHANGED pending
        \/ \E leaf \in OwnedBy(self), token_leaf \in {l \in OwnedBy(token) : l.data},
              invalid_fee_payer \in Payer \ {signer}, mode \in TokenMode :
            cpi_context_tx(self, token, signer, invalid_fee_payer, leaf, token_leaf, mode)

\* The second invocation succeeds, or the transaction fails.
Second ==
    /\ pending # None
    /\ pending' = None
    /\ IF InvokeCpiAccepts(pending.call) THEN process_invoke_cpi(pending.call)
       ELSE /\ cpi_context_account' = pending.before
            /\ UNCHANGED <<systemVars, caller>>

\* Any instruction of any program that involves no addresses
OtherPrograms ==
    /\ CpiNextWith({ix \in CpiInstruction :
                    /\ ix.new_addresses = <<>>
                    /\ \A j \in DOMAIN ix.outputs : ix.outputs[j].address = None})
    /\ \A t \in Tree : Len(trees'[t]) <= MaxLeaves
    /\ UNCHANGED pending

TestInit == CpiInit /\ pending = None

TestNext ==
    \/ pending = None /\ OtherPrograms
    \/ \E self \in Program : \E token \in Program \ {self} :
        /\ pending = None
        /\ create_compressed_pda(self) \/ with_input_accounts(self, token)
    \/ Second

TestSpec == TestInit /\ [][TestNext]_testVars

-----------------------------------------------------------------------------
\* The calls that the tests expect to fail, in any state
FailingCalls(self, token, signer) ==
    {process_create_pda(self, signer, t, address, mode)
        : t \in Tree, address \in Address \ addresses, mode \in CreatePdaMode \ {"ProgramIsSigner"}}
    \cup
    {process_invalidate_not_owned_compressed_account(self, token, signer, leaf, mode)
        : leaf \in {l \in OwnedBy(self) : l.data},
          mode \in InvalidateMode \ {"NotOwnedCompressedAccount", "CpiContextEmpty"}}
    \cup
    {process_invalidate_not_owned_compressed_account(self, token, signer, leaf,
                                                     "NotOwnedCompressedAccount")
        : leaf \in OwnedBy(token)}

\* No state makes the system program accept one of them, whatever other
\* programs have cached; executing the context of another fee payer, or an
\* empty one, fails as well.
FailingCallsFail ==
    \A self \in Program : \A token \in Program \ {self}, signer \in Payer :
        /\ \A c \in FailingCalls(self, token, signer) : ~InvokeCpiAccepts(c)
        /\ \A leaf \in OwnedBy(self) :
            cpi_context_account.fee_payer # signer =>
                ~InvokeCpiAccepts(write_into_cpi_account(self, signer, leaf))

\* Whoever executes it and however the parts were collected, an instruction
\* consumes an account, or creates one with data, only if the owner executes
\* the instruction or has contributed that account itself, in an instruction
\* of the same fee payer; and the calls by which the tests try to get around
\* that are refused in every state.
OwnersConsent == [][Consented /\ FailingCallsFail]_testVars
=============================================================================
