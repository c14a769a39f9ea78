----------------------------- MODULE Ownership ------------------------------
(***************************************************************************)
(* Who owns a project: imports (NewProject.tsx), offers to take one over,  *)
(* deletions, and accounts that are deleted (AccountSettings.tsx). The     *)
(* server looks a session up before the handler runs, in another section   *)
(* of its mutex: a request that was let in may be handled when the account *)
(* it came from is gone.                                                   *)
(***************************************************************************)
EXTENDS Naturals, FiniteSets

CONSTANTS User, NoUser, Admin,
          Me,             \* the user of the pages that are modelled
          Repo, NoRepo,   \* slugs of projects
          MaxOffers,      \* bound: transfers made
          MaxAdmitted     \* bound: requests under way

ASSUME OwnershipAssumption ==
  /\ {Me, Admin} \subseteq User /\ NoUser \notin User /\ NoRepo \notin Repo
  /\ {MaxOffers, MaxAdmitted} \subseteq Nat \ {0}

VARIABLES
  members,      \* users; their sessions and integrations end with them
  owner,        \* created_by of each project, or NoUser
  offers, offersMade,   \* pending project_transfers; how many were ever made
  admitted,     \* requests that were let in
  passwords,    \* members with a password
  account, import, card,   \* AccountSettings, NewProject and TransferCard of Me
  lateImports   \* history: projects that a request of a deleted account made

ownershipVars ==
  <<members, owner, offers, offersMade, admitted, passwords, account, import, card,
    lateImports>>

Offer == [id : 1..MaxOffers, repo : Repo, from : User, to : User]
NoForm == [mode |-> "github", selected |-> NoRepo, busy |-> FALSE]
NoCard == [repo |-> NoRepo, pending |-> FALSE, busy |-> FALSE]
AccountSteps == {"idle", "confirming", "deleting", "gone"}

OwnershipInit ==
  /\ members = User /\ passwords \in {{}, {Me}}
  /\ owner \in [Repo -> User \cup {NoUser}]
  /\ offers = {} /\ offersMade = 0 /\ admitted = {} /\ lateImports = {}
  /\ account = [open |-> FALSE, busy |-> FALSE, hasPassword |-> Me \in passwords,
                step |-> "idle"]
  /\ import = NoForm /\ card = NoCard

(* Types of the state of accounts and projects.                            *)
OwnershipTypeOK ==
  /\ members \subseteq User /\ owner \in [Repo -> User \cup {NoUser}]
  /\ offers \subseteq Offer /\ passwords \subseteq members
  /\ Cardinality(admitted) <= MaxAdmitted /\ account.step \in AccountSteps
  /\ import.selected \in Repo \cup {NoRepo} /\ lateImports \subseteq Repo

-----------------------------------------------------------------------------
(* Requests                                                                *)

Kinds == {"transfer", "withdraw", "accept", "decline", "delete-project"}
OfCard == {"transfer", "withdraw"}
Request(kind, by, repo, arg) == [kind |-> kind, by |-> by, repo |-> repo, arg |-> arg]

(* AuthUser: only a member's session lets a request in.                    *)
Admit(r) ==
  /\ r.by \in members /\ Cardinality(admitted) < MaxAdmitted
  /\ admitted' = admitted \cup {r}
Handled(r) == admitted' = admitted \ {r}
Handles(r) == r \in admitted /\ Handled(r)
PagesStay == UNCHANGED <<account, import, card>>

(* Requests of pages that are not modelled here. The argument is the       *)
(* person or the transfer that is named.                                   *)
SendRequest(kind, by, repo, arg) ==
  /\ kind \in Kinds /\ (kind \in OfCard => by # Me) /\ Admit(Request(kind, by, repo, arg))
  /\ UNCHANGED <<members, owner, offers, offersMade, passwords, lateImports>> /\ PagesStay

(* The answer to the card's own request.                                   *)
CardShows(r, pending) ==
  /\ card' = IF r.by = Me /\ r.kind \in OfCard
             THEN [card EXCEPT !.pending = pending, !.busy = FALSE] ELSE card
  /\ UNCHANGED <<account, import>>

(* A handler that finds nothing to do, or somebody else's.                 *)
Refuse(r) ==
  /\ r.kind \in Kinds /\ Handles(r) /\ CardShows(r, card.pending)
  /\ UNCHANGED <<members, owner, offers, offersMade, passwords, lateImports>>

-----------------------------------------------------------------------------
(* Handlers: each holds the mutex                                          *)

PendingFor(p) == {o \in offers : o.repo = p}

(* transfer_project: require_creator, one offer at a time, to a member.    *)
Transfer(r) ==
  /\ r.kind = "transfer" /\ Handles(r)
  /\ owner[r.repo] = r.by /\ PendingFor(r.repo) = {}
  /\ r.arg \in members \ {owner[r.repo]} /\ offersMade < MaxOffers
  /\ offersMade' = offersMade + 1
  /\ offers' = offers \cup {[id |-> offersMade + 1, repo |-> r.repo, from |-> r.by, to |-> r.arg]}
  /\ CardShows(r, TRUE)
  /\ UNCHANGED <<members, owner, passwords, lateImports>>
CancelTransfer(r) ==
  /\ r.kind = "withdraw" /\ Handles(r) /\ owner[r.repo] = r.by
  /\ offers' = offers \ PendingFor(r.repo) /\ CardShows(r, FALSE)
  /\ UNCHANGED <<members, owner, offersMade, passwords, lateImports>>

(* accept_transfer and decline_transfer: a pending one sent to this user.  *)
Respond(r) ==
  \E o \in offers :
    /\ r.kind \in {"accept", "decline"} /\ Handles(r)
    /\ o.id = r.arg /\ o.to = r.by
    /\ offers' = offers \ {o}
    /\ owner' = IF r.kind = "accept" THEN [owner EXCEPT ![o.repo] = r.by] ELSE owner
    /\ lateImports' = IF r.kind = "accept" THEN lateImports \ {o.repo} ELSE lateImports
    /\ UNCHANGED <<members, offersMade, passwords>> /\ PagesStay

(* delete_project: require_admin_or_creator; its offers go with it.        *)
DeleteProject(r) ==
  /\ r.kind = "delete-project" /\ Handles(r) /\ owner[r.repo] # NoUser
  /\ r.by \in {Admin, owner[r.repo]}
  /\ owner' = [owner EXCEPT ![r.repo] = NoUser] /\ offers' = offers \ PendingFor(r.repo)
  /\ lateImports' = lateImports \ {r.repo}
  /\ UNCHANGED <<members, offersMade, passwords>> /\ PagesStay

-----------------------------------------------------------------------------
(* The card of the settings, for the owner only: TransferCard              *)

CardOnly ==
  /\ account.step # "gone"
  /\ UNCHANGED <<members, owner, offers, offersMade, passwords, account, import, lateImports>>

ShowCard(p) ==
  /\ CardOnly /\ owner[p] = Me /\ ~card.busy /\ UNCHANGED admitted
  /\ card' = [repo |-> p, pending |-> PendingFor(p) # {}, busy |-> FALSE]
RequestTransfer(u) ==
  /\ CardOnly /\ card.repo # NoRepo /\ ~card.busy /\ ~card.pending /\ u # Me
  /\ Admit(Request("transfer", Me, card.repo, u)) /\ card' = [card EXCEPT !.busy = TRUE]
CancelRequest ==
  /\ CardOnly /\ card.pending /\ ~card.busy
  /\ Admit(Request("withdraw", Me, card.repo, NoUser)) /\ card' = [card EXCEPT !.busy = TRUE]

-----------------------------------------------------------------------------
(* Importing a project: NewProject.tsx and create_project                  *)

ImportOnly ==
  /\ account.step # "gone"
  /\ UNCHANGED <<members, owner, offers, offersMade, admitted, passwords, account, card,
                 lateImports>>

SetImportMode ==
  /\ ImportOnly
  /\ import' = [import EXCEPT !.mode = IF @ = "github" THEN "url" ELSE "github"]
ChooseRepo(p) == ImportOnly /\ import.selected # p /\ import' = [import EXCEPT !.selected = p]

SubmitImport ==
  /\ account.step # "gone" /\ ~import.busy /\ import.selected # NoRepo
  /\ Admit(Request("create", Me, import.selected, import.mode))
  /\ import' = [import EXCEPT !.busy = TRUE]
  /\ UNCHANGED <<members, owner, offers, offersMade, passwords, account, card, lateImports>>

(* A repository of GitHub is looked up first, with the user's integration. *)
LookUpRepo(r) ==
  /\ r.kind = "create" /\ r.arg = "github" /\ r \in admitted
  /\ \/ /\ r.by \in members /\ admitted' = (admitted \ {r}) \cup {[r EXCEPT !.arg = "found"]}
        /\ UNCHANGED import
     \/ Handled(r) /\ import' = [import EXCEPT !.busy = FALSE]
  /\ UNCHANGED <<members, owner, offers, offersMade, passwords, account, card, lateImports>>

(* unique_slug; bound: slugs in Repo.                                      *)
UniqueSlug(p) == {q \in Repo : owner[q] = NoUser /\ (owner[p] = NoUser => q = p)}

(* The row is made for the user who was let in. What follows may fail and  *)
(* leaves it. Success leads away from the form, which starts over.         *)
CreateProject(r) ==
  /\ r.kind = "create" /\ r.arg \in {"url", "found"} /\ Handles(r)
  /\ \E p \in UniqueSlug(r.repo) :
       /\ owner' = [owner EXCEPT ![p] = r.by]
       /\ lateImports' = IF r.by \in members THEN lateImports ELSE lateImports \cup {p}
  /\ import' \in {NoForm, [import EXCEPT !.busy = FALSE]}
  /\ UNCHANGED <<members, offers, offersMade, passwords, account, card>>
CreateFails(r) ==
  /\ r.kind = "create" /\ Handles(r) /\ import' = [import EXCEPT !.busy = FALSE]
  /\ UNCHANGED <<members, owner, offers, offersMade, passwords, account, card, lateImports>>

-----------------------------------------------------------------------------
(* The account: AccountSettings.tsx, set_password and delete_account       *)

AccountOnly ==
  UNCHANGED <<members, owner, offers, offersMade, passwords, import, card, lateImports>>
Here == account.step # "gone"

OpenPasswordForm ==
  /\ Here /\ ~account.open /\ account' = [account EXCEPT !.open = TRUE]
  /\ UNCHANGED admitted /\ AccountOnly
ClosePasswordForm ==
  /\ Here /\ account.open /\ ~account.busy /\ account' = [account EXCEPT !.open = FALSE]
  /\ UNCHANGED admitted /\ AccountOnly

(* The current password is asked for if the page knows of one. The         *)
(* argument: what is typed is right.                                       *)
SavePassword ==
  /\ Here /\ account.open /\ ~account.busy
  /\ \E right \in {account.hasPassword, FALSE} :
       Admit(Request("password", Me, NoRepo, right))
  /\ account' = [account EXCEPT !.busy = TRUE] /\ AccountOnly
SetPassword(r) ==
  /\ r.kind = "password" /\ Handles(r)
  /\ IF r.by \in members /\ (r.by \in passwords => r.arg)
     THEN /\ passwords' = passwords \cup {r.by}
          /\ account' = [account EXCEPT !.busy = FALSE, !.open = FALSE, !.hasPassword = TRUE]
     ELSE account' = [account EXCEPT !.busy = FALSE] /\ UNCHANGED passwords
  /\ UNCHANGED <<members, owner, offers, offersMade, import, card, lateImports>>

StartDeleting ==
  /\ account.step = "idle" /\ account' = [account EXCEPT !.step = "confirming"]
  /\ UNCHANGED admitted /\ AccountOnly
StopDeleting ==
  /\ account.step \in {"confirming", "deleting"} /\ account' = [account EXCEPT !.step = "idle"]
  /\ UNCHANGED admitted /\ AccountOnly
ConfirmDeleteAccount ==
  /\ account.step = "confirming" /\ Admit(Request("delete-account", Me, NoRepo, NoUser))
  /\ account' = [account EXCEPT !.step = "deleting"] /\ AccountOnly

OffersKept(u) == offers       \* a mutant: transfers do not go with the account
OffersWithout(u) == {o \in offers : u \notin {o.from, o.to}}

(* Nothing but the caller's own projects is looked for; the row's          *)
(* dependants cascade. The page signs out.                                 *)
DeleteAccount(r) ==
  /\ r.kind = "delete-account" /\ Handles(r)
  /\ IF \E p \in Repo : owner[p] = r.by
     THEN /\ account' = [account EXCEPT !.step = IF @ = "deleting" THEN "idle" ELSE @]
          /\ UNCHANGED <<members, offers, passwords>>
     ELSE /\ members' = members \ {r.by} /\ offers' = OffersWithout(r.by)
          /\ passwords' = passwords \ {r.by}
          /\ account' = [account EXCEPT !.step = "gone"]
  /\ UNCHANGED <<owner, offersMade, import, card, lateImports>>

-----------------------------------------------------------------------------
OwnershipNext ==
  \/ \E u \in User, p \in Repo :
       \/ \E kind \in {"withdraw", "delete-project"} : SendRequest(kind, u, p, NoUser)
       \/ \E v \in User : SendRequest("transfer", u, p, v)
  \/ \E o \in offers, kind \in {"accept", "decline"} : SendRequest(kind, o.to, o.repo, o.id)
  \/ \E r \in admitted :
       \/ Refuse(r) \/ Transfer(r) \/ CancelTransfer(r) \/ Respond(r) \/ DeleteProject(r)
       \/ LookUpRepo(r) \/ CreateProject(r) \/ CreateFails(r)
       \/ SetPassword(r) \/ DeleteAccount(r)
  \/ CancelRequest \/ \E p \in Repo : ShowCard(p)
  \/ \E u \in User : RequestTransfer(u)
  \/ SetImportMode \/ SubmitImport \/ \E p \in Repo : ChooseRepo(p)
  \/ OpenPasswordForm \/ ClosePasswordForm \/ SavePassword
  \/ StartDeleting \/ StopDeleting \/ ConfirmDeleteAccount

-----------------------------------------------------------------------------
(* A project has an owner who exists, except one that was imported by a    *)
(* request let in before its account was deleted; and a pending offer goes *)
(* from the owner to another member, whatever accepts, withdrawals and     *)
(* deletions overtake each other (auth.rs:517-537, users.rs:81-84,         *)
(* projects.rs:392-424).                                                   *)
ProjectsAreOwned ==
  /\ \A p \in Repo : owner[p] \in members \cup {NoUser} \/ p \in lateImports
  /\ \A o \in offers : o.from = owner[o.repo] /\ o.to \in members \ {o.from}
=============================================================================
