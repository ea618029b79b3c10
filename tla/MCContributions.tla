--------------------------- MODULE MCContributions ---------------------------
(* What members contribute and what moderators make of it, the captcha they  *)
(* pass, the lists they keep and the pages of the administrators: six parts  *)
(* that share nothing, checked in one run, where each behaviour is a behaviour of one of them, the others   *)
(* standing still.                                                           *)
(* Two requests of moderators, or of whoever else the part knows, run at     *)
(* once.  Moderation: two members and a threshold of two, so that two        *)
(* reports of one of them differ from one of each; three reports, which are  *)
(* also the challenges and the lists.                                        *)
EXTENDS Moderation, Community, Media, Captcha, Lists, AdminPages, TLC

CONSTANTS a1, a2, SP98

VARIABLE part

(* Only the part that moves starts anywhere; the others start in one state. *)
MCInit ==
  /\ part \in {"moderation", "community", "media", "captcha", "lists", "admin"}
  /\ part # "moderation" => /\ kind = "comment" /\ content = "PENDING"
                            /\ reports = [k \in Call |-> [by |-> CHOOSE m \in Member : TRUE, status |-> "none"]]
  /\ part # "admin" => pile = "comment"
  /\ ModerationInit /\ CommunityInit /\ Init /\ CaptchaInit /\ ListsInit /\ AdminInit

Others(p) == /\ p # "moderation" => UNCHANGED moderationVars
             /\ p # "community" => UNCHANGED communityVars
             /\ p # "media" => UNCHANGED vars
             /\ p # "captcha" => UNCHANGED captchaVars
             /\ p # "lists" => UNCHANGED listsVars
             /\ p # "admin" => UNCHANGED adminVars

MCNext ==
  /\ UNCHANGED part
  /\ \/ part = "moderation" /\ ModerationNext /\ Others("moderation")
     \/ part = "community" /\ CommunityNext /\ Others("community")
     \/ part = "media" /\ Next /\ Others("media")
     \/ part = "captcha" /\ CaptchaNext /\ Others("captcha")
     \/ part = "lists" /\ ListsNext /\ Others("lists")
     \/ part = "admin" /\ AdminNext /\ Others("admin")

MCSpec == MCInit /\ [][MCNext]_<<part, moderationVars, communityVars, vars, captchaVars, listsVars,
                                 adminVars>>

Requests == {a1, a2}
Fuels == {SP98}

MCSymmetry == Permutations(Call) \cup Permutations(Requests)

==============================================================================
