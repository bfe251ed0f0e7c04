------------------------------- MODULE SignUp -------------------------------
(***************************************************************************)
(* How accounts come to be: by name and password, or by a code sent to an  *)
(* e-mail address (account/service.go: Register, Rename, SendEmailCode,    *)
(* VerifyEmail, createEmailAccount; account/otp.go; account/repo.go:       *)
(* Create, CreateWithEmailIdentity).                                       *)
(*                                                                         *)
(* One address, any number of requests.  The code lives in Redis, the      *)
(* accounts and identities in MySQL, where the unique indexes of           *)
(* accounts.username and of account_identities(provider, subject) decide   *)
(* what the reads before an insert could not.                              *)
(***************************************************************************)
EXTENDS Integers, Sequences, FiniteSets

CONSTANTS
    SignUpRequests,
    AccountNames,    \* <<base, base_2, ...>>, in the order uniqueUsername tries
    MaxCodes,        \* bound: codes sent
    NoName

ASSUME MaxCodesAssumption == MaxCodes \in Nat \ {0}

VARIABLES
    accounts,        \* rows of accounts, each with its identity, if any
    gifts,           \* of each name, the gifts its account was given
    otp,             \* the stored code, 0 when there is none
    cooldown,        \* the cooldown key is there
    codes,           \* how many codes were made
    mailbox,         \* codes that were delivered, in any order
    signUp           \* what every request does

signUpVars == <<accounts, gifts, otp, cooldown, codes, mailbox, signUp>>
codeStore == <<otp, cooldown, codes, mailbox>>

NamesInUse == {AccountNames[k] : k \in DOMAIN AccountNames}
SentCodes == 1..MaxCodes
SignUpIdle == [pc |-> "idle", name |-> NoName, code |-> 0]

SignUpTypeOK ==
    /\ accounts \in SUBSET [name : NamesInUse, email : BOOLEAN, id : NamesInUse]
    /\ gifts \in [NamesInUse -> Nat]
    /\ otp \in 0..MaxCodes /\ cooldown \in BOOLEAN /\ codes \in 0..MaxCodes
    /\ mailbox \in SUBSET SentCodes
    /\ signUp \in [SignUpRequests ->
         [pc : {"idle", "insert", "save", "mail", "delete", "find", "pick", "create", "rename"},
          name : NamesInUse \union {NoName}, code : 0..MaxCodes]]

SignUpInit ==
    /\ accounts = {} /\ gifts = [n \in NamesInUse |-> 0]
    /\ otp = 0 /\ cooldown = FALSE /\ codes = 0 /\ mailbox = {}
    /\ signUp = [r \in SignUpRequests |-> SignUpIdle]
-----------------------------------------------------------------------------
SignUpAt(r, pc) == signUp[r].pc = pc
SignUpGoes(r, pc, name, code) ==
    signUp' = [signUp EXCEPT ![r] = [pc |-> pc, name |-> name, code |-> code]]
SignUpEnds(r) == SignUpGoes(r, "idle", NoName, 0)

Taken(n) == \E a \in accounts : a.name = n
Bound == \E a \in accounts : a.email

\* A table of identities without its unique index.
MayInsertUnbound(n, email) == ~Taken(n)

\* The unique indexes.
MayInsert(n, email) == ~Taken(n) /\ ~(email /\ Bound)

\* Create and CreateWithEmailIdentity: the account, its identity and the gift
\* of the created hook are one transaction.  An account is known by the first
\* name it had.
InsertAccount(r, n, email) ==
    /\ SignUpEnds(r)
    /\ IF MayInsert(n, email)
       THEN /\ accounts' = accounts \union {[name |-> n, email |-> email, id |-> n]}
            /\ gifts' = [gifts EXCEPT ![n] = @ + 1]
       ELSE UNCHANGED <<accounts, gifts>>

\* Register: the name is looked up, the password hashed, the row inserted.
Register(r, n) ==
    /\ SignUpAt(r, "idle") /\ ~Taken(n) /\ SignUpGoes(r, "insert", n, 0)
    /\ UNCHANGED <<accounts, gifts, codeStore>>

RegisterInserts(r) ==
    /\ SignUpAt(r, "insert") /\ InsertAccount(r, signUp[r].name, FALSE)
    /\ UNCHANGED codeStore

\* Rename of the account bound to the address.
AskRename(r, n) ==
    /\ SignUpAt(r, "idle") /\ Bound /\ ~Taken(n) /\ SignUpGoes(r, "rename", n, 0)
    /\ UNCHANGED <<accounts, gifts, codeStore>>

Renamed(r) ==
    /\ SignUpAt(r, "rename") /\ SignUpEnds(r)
    /\ accounts' = IF Taken(signUp[r].name) THEN accounts
                   ELSE {IF a.email THEN [a EXCEPT !.name = signUp[r].name] ELSE a : a \in accounts}
    /\ UNCHANGED <<gifts, codeStore>>
-----------------------------------------------------------------------------
\* SendEmailCode: the cooldown is taken first and stays, whatever fails later.
StartCode(r) ==
    /\ SignUpAt(r, "idle") /\ ~cooldown /\ codes < MaxCodes
    /\ cooldown' = TRUE /\ codes' = codes + 1
    /\ SignUpGoes(r, "save", NoName, codes + 1)
    /\ UNCHANGED <<accounts, gifts, otp, mailbox>>

SaveHash(r) ==
    /\ SignUpAt(r, "save") /\ SignUpGoes(r, "mail", NoName, signUp[r].code)
    /\ otp' = signUp[r].code
    /\ UNCHANGED <<accounts, gifts, cooldown, codes, mailbox>>

MailCode(r) ==
    /\ SignUpAt(r, "mail") /\ SignUpEnds(r)
    /\ mailbox' = mailbox \union {signUp[r].code}
    /\ UNCHANGED <<accounts, gifts, otp, cooldown, codes>>

ExpireCooldown ==
    /\ cooldown /\ cooldown' = FALSE
    /\ UNCHANGED <<accounts, gifts, otp, codes, mailbox, signUp>>

ExpireCode ==
    /\ otp # 0 /\ otp' = 0
    /\ UNCHANGED <<accounts, gifts, cooldown, codes, mailbox, signUp>>
-----------------------------------------------------------------------------
\* MatchHash is a read and, when the code matches, a delete.
MatchCode(r, c) ==
    /\ SignUpAt(r, "idle") /\ c \in mailbox /\ otp = c
    /\ SignUpGoes(r, "delete", NoName, c)
    /\ UNCHANGED <<accounts, gifts, codeStore>>

DeleteCode(r) ==
    /\ SignUpAt(r, "delete") /\ SignUpGoes(r, "find", NoName, signUp[r].code)
    /\ otp' = 0
    /\ UNCHANGED <<accounts, gifts, cooldown, codes, mailbox>>

\* The login itself is an operation of module Sessions.
FindIdentity(r) ==
    /\ SignUpAt(r, "find")
    /\ IF Bound THEN SignUpEnds(r) ELSE SignUpGoes(r, "pick", NoName, 0)
    /\ UNCHANGED <<accounts, gifts, codeStore>>

\* uniqueUsername takes the first name it finds free.
PickName(r) ==
    /\ SignUpAt(r, "pick")
    /\ \E k \in DOMAIN AccountNames :
         /\ ~Taken(AccountNames[k]) /\ \A j \in 1..(k - 1) : Taken(AccountNames[j])
         /\ SignUpGoes(r, "create", AccountNames[k], 0)
    /\ UNCHANGED <<accounts, gifts, codeStore>>

CreateEmailAccount(r) ==
    /\ SignUpAt(r, "create") /\ InsertAccount(r, signUp[r].name, TRUE)
    /\ UNCHANGED codeStore

\* Redis, the mail server or MySQL fails, or the process dies.
SignUpFails(r) ==
    /\ ~SignUpAt(r, "idle") /\ SignUpEnds(r)
    /\ UNCHANGED <<accounts, gifts, codeStore>>

SignUpNext ==
    \/ \E r \in SignUpRequests :
         \/ RegisterInserts(r) \/ Renamed(r) \/ StartCode(r) \/ SaveHash(r) \/ MailCode(r)
         \/ DeleteCode(r) \/ FindIdentity(r) \/ PickName(r) \/ CreateEmailAccount(r) \/ SignUpFails(r)
         \/ \E n \in NamesInUse : Register(r, n) \/ AskRename(r, n)
         \/ \E c \in SentCodes : MatchCode(r, c)
    \/ ExpireCooldown \/ ExpireCode

SignUpSafety == SignUpInit /\ [][SignUpNext]_signUpVars
-----------------------------------------------------------------------------
\* "A verified address binds to one identity row ... Account creation and the
\* registration gift succeed or fail together" (.spec/backend/account/spec.md):
\* however requests race, no two accounts share a name or the address, and
\* every account ever made was given its gift once.
SignedUpOnce ==
    /\ \A a, b \in accounts : a.name = b.name \/ (a.email /\ b.email) => a = b
    /\ \A n \in NamesInUse : gifts[n] = Cardinality({a \in accounts : a.id = n})
=============================================================================
