------------------------------ MODULE MCReaders ------------------------------
(***************************************************************************)
(* Small instances of what a reader sets up or holds: webhooks, a radio    *)
(* sign-in, the lines opened to others, the page's players and             *)
(* notifications, credits and invites, and the key vault.  A behaviour is  *)
(* of one of them, the subject, while the others stay as they begin.       *)
(***************************************************************************)
EXTENDS Naturals, TLC

CONSTANTS None, q1, q2, o1, c1, tv, fm, a1, b1, b2, k1

VARIABLES
  subject,
  now, state, start, touched, odds, hook, follows, marks, rate, hooksPc, wanted, kind,
  rows, todo, told, spent, syncs, hooksFaults,
  radioStored, unlocked, bearer, inflight, lapsed, radioPc, held, waits, pending, verify,
  logins, radioCrossed, forgets,
  line, grants, members, edit, sharedPage, sharedPc, sharedAt, tuned, lineOf, fresh,
  chosen, named, sharedCrossed, kept,
  pagesPage, going, chain, bundle, waiting, gen, handle, label, pagesRow, sweep, stray,
  running, pagesLate, pagesPresses, pagesFaults,
  permission, sub, minted, who, pushRow, pushPc, repaint, current, shown, holding,
  pushLate, posted, excused, pushPresses, settings, pushFaults,
  live, code, redeemed, invite, quota, new, terms, codesPc, job, lost, most, codesFaults,
  vault, noting, owners, heard, key, vaultStored, draft, vaultAt, got, hand, sure, edits,
  vaultCrossed, settled, vaultFaults

hooksVars == <<now, state, start, touched, odds, hook, follows, marks, rate, hooksPc,
    wanted, kind, rows, todo, told, spent, syncs, hooksFaults>>
radioVars == <<radioStored, unlocked, bearer, inflight, lapsed, radioPc, held, waits,
    pending, verify, logins, radioCrossed, forgets>>
sharedVars == <<line, grants, members, edit, sharedPage, sharedPc, sharedAt, tuned, lineOf,
    fresh, chosen, named, sharedCrossed, kept>>
pagesVars == <<pagesPage, going, chain, bundle, waiting, gen, handle, label, pagesRow,
    sweep, stray, running, pagesLate, pagesPresses, pagesFaults>>
pushVars == <<permission, sub, minted, who, pushRow, pushPc, repaint, current, shown,
    holding, pushLate, posted, excused, pushPresses, settings, pushFaults>>
codesVars == <<live, code, redeemed, invite, quota, new, terms, codesPc, job, lost, most,
    codesFaults>>
vaultVars == <<vault, noting, owners, heard, key, vaultStored, draft, vaultAt, got, hand,
    sure, edits, vaultCrossed, settled, vaultFaults>>

GameKinds == <<"game.started", "game.final">>
LineKinds == <<"line.moved">>
SealedOrder == <<"address", "line">>

GameHooks == INSTANCE Webhooks WITH Scanners <- {q1, q2}, Owners <- {o1}, Games <- {1},
  Kinds <- GameKinds, Limit <- 4, Cap <- 1, Window <- 1, Fresh <- 1, Keep <- 2,
  MaxTime <- 3, MaxSyncs <- 2, MaxReadings <- 0, MaxFaults <- 1, pc <- hooksPc,
  faults <- hooksFaults

LineHooks == INSTANCE Webhooks WITH Scanners <- {q1, q2}, Owners <- {o1}, Games <- {1},
  Kinds <- LineKinds, Limit <- 4, Cap <- 1, Window <- 1, Fresh <- 1, Keep <- 2,
  MaxTime <- 1, MaxSyncs <- 1, MaxReadings <- 3, MaxFaults <- 1, pc <- hooksPc,
  faults <- hooksFaults

RadioSession == INSTANCE RadioSession WITH Calls <- {q1, q2, c1}, MaxLogins <- 2,
  MaxTurns <- 1, MaxForgets <- 1, stored <- radioStored, pc <- radioPc,
  crossed <- radioCrossed

SharedRadio == INSTANCE SharedRadio WITH Owners <- {a1}, Readers <- {a1, b1},
  Requests <- {q1, q2}, Edits <- {k1}, MaxMinted <- 2, page <- sharedPage, pc <- sharedPc,
  at <- sharedAt, crossed <- sharedCrossed

PagePlayer == INSTANCE PagePlayer WITH Tv <- {tv}, Radio <- {fm}, Rows <- {1, 2},
  MaxPages <- 2, MaxPresses <- 3, MaxFaults <- 1, page <- pagesPage, row <- pagesRow,
  late <- pagesLate, presses <- pagesPresses, faults <- pagesFaults

Push == INSTANCE Push WITH Pages <- {1, 2}, Users <- {a1, b1}, MaxPresses <- 2,
  MaxEndpoints <- 2, MaxSettings <- 2, MaxFaults <- 2, row <- pushRow, pc <- pushPc,
  late <- pushLate, presses <- pushPresses, faults <- pushFaults

CodeCredits == INSTANCE Credits WITH Requests <- {q1, q2}, Users <- {a1, b1, b2},
  New <- {b1}, Codes <- {1}, LiveCodes <- {1}, MaxRedemptions <- 1, Invites <- {1},
  Quotas <- {1}, MaxFaults <- 1, pc <- codesPc, faults <- codesFaults

InviteCredits == INSTANCE Credits WITH Requests <- {q1, q2}, Users <- {a1, b1, b2},
  New <- {b1, b2}, Codes <- {}, LiveCodes <- {}, MaxRedemptions <- 1, Invites <- {1, 2},
  Quotas <- {1, 2}, MaxFaults <- 1, pc <- codesPc, faults <- codesFaults

Vault == INSTANCE Vault WITH Migrations <- {k1}, Order <- SealedOrder, MaxEdits <- 1,
  MaxFaults <- 1, stored <- vaultStored, at <- vaultAt, crossed <- vaultCrossed,
  faults <- vaultFaults

ASSUME PartsConstants ==
  /\ GameHooks!ConstantsType /\ LineHooks!ConstantsType /\ Vault!ConstantsType
  /\ CodeCredits!ConstantsType /\ InviteCredits!ConstantsType
  /\ RadioSession!ConstantsType /\ SharedRadio!ConstantsType
  /\ PagePlayer!ConstantsType /\ Push!ConstantsType

Init ==
  /\ subject \in {"hooks", "lines", "radio", "shared", "pages", "push", "codes", "invites",
       "vault"}
  /\ IF subject = "lines" THEN LineHooks!Init ELSE GameHooks!Init
  /\ RadioSession!Init
  /\ SharedRadio!Init
  /\ PagePlayer!Init
  /\ Push!Init
  /\ IF subject = "invites" THEN InviteCredits!Init ELSE CodeCredits!Init
  /\ Vault!Init
  /\ subject \notin {"hooks", "lines"} => start = [g \in {1} |-> 0]
  /\ subject \notin {"codes", "invites"} => live
  /\ subject # "push" => who = a1

Next ==
  \/ subject = "hooks" /\ GameHooks!Next /\ UNCHANGED <<subject, radioVars, sharedVars,
       pagesVars, pushVars, codesVars, vaultVars>>
  \/ subject = "lines" /\ LineHooks!Next /\ UNCHANGED <<subject, radioVars, sharedVars,
       pagesVars, pushVars, codesVars, vaultVars>>
  \/ subject = "radio" /\ RadioSession!Next /\ UNCHANGED <<subject, hooksVars, sharedVars,
       pagesVars, pushVars, codesVars, vaultVars>>
  \/ subject = "shared" /\ SharedRadio!Next /\ UNCHANGED <<subject, hooksVars, radioVars,
       pagesVars, pushVars, codesVars, vaultVars>>
  \/ subject = "pages" /\ PagePlayer!Next /\ UNCHANGED <<subject, hooksVars, radioVars,
       sharedVars, pushVars, codesVars, vaultVars>>
  \/ subject = "push" /\ Push!Next /\ UNCHANGED <<subject, hooksVars, radioVars,
       sharedVars, pagesVars, codesVars, vaultVars>>
  \/ subject = "codes" /\ CodeCredits!Next /\ UNCHANGED <<subject, hooksVars, radioVars,
       sharedVars, pagesVars, pushVars, vaultVars>>
  \/ subject = "invites" /\ InviteCredits!Next /\ UNCHANGED <<subject, hooksVars,
       radioVars, sharedVars, pagesVars, pushVars, vaultVars>>
  \/ subject = "vault" /\ Vault!Next /\ UNCHANGED <<subject, hooksVars, radioVars,
       sharedVars, pagesVars, pushVars, codesVars>>

vars == <<subject, hooksVars, radioVars, sharedVars, pagesVars, pushVars, codesVars,
    vaultVars>>

Spec == Init /\ [][Next]_vars

\* The types of the part that moves.
TypeOK ==
  /\ subject = "hooks" => GameHooks!TypeOK
  /\ subject = "lines" => LineHooks!TypeOK
  /\ subject = "radio" => RadioSession!TypeOK
  /\ subject = "shared" => SharedRadio!TypeOK
  /\ subject = "pages" => PagePlayer!TypeOK
  /\ subject = "push" => Push!TypeOK
  /\ subject = "codes" => CodeCredits!TypeOK
  /\ subject = "invites" => InviteCredits!TypeOK
  /\ subject = "vault" => Vault!TypeOK

\* A webhook is sent what it asked for once, and no more than its cap.
HooksHonest ==
  IF subject = "lines" THEN LineHooks!AnnouncedOnce /\ LineHooks!CapKept
  ELSE GameHooks!AnnouncedOnce /\ GameHooks!CapKept

\* One load mints one bearer, what is held is of the session that is stored, and a line is
\* tuned and fetched over for whom its owner means it, and held under one address at a time.
RadioSound ==
  /\ RadioSession!HeldIsStored
  /\ RadioSession!OneLoad
  /\ RadioSession!WaitsForALoad
  /\ SharedRadio!UsedAsMeant
  /\ SharedRadio!OneAddress
  /\ SharedRadio!NamesGoWithTheLine

\* What plays can be stopped, is of the page shown, and is not probed beside its stream;
\* and a browser is not left subscribed to what the server never stored.
PageHonest ==
  /\ PagePlayer!NoStrayPlayer
  /\ PagePlayer!LeftPagesSilent
  /\ PagePlayer!NoCheckBesideStream
  /\ Push!SubscribedIsStored

\* What is spent is granted, what is granted was earned, and invites stay scarce.
CreditsHonest ==
  /\ subject = "codes" =>
       CodeCredits!SpentIsGranted /\ CodeCredits!BothSidesGranted
       /\ CodeCredits!TermsEarned /\ CodeCredits!LiveSpentWhereUsable
  /\ subject = "invites" =>
       InviteCredits!BothSidesGranted /\ InviteCredits!TermsEarned /\ InviteCredits!InvitesScarce

\* The move to the vault loses no edit and leaves nothing behind.
VaultKeeps == Vault!VaultKeeps

Alike == Permutations({q1, q2}) 
=============================================================================
