-------------------------- MODULE MCPasswordLogin --------------------------
EXTENDS PasswordLogin, TLC

LoginDomainOf == [u \in Users |-> CHOOSE d \in Domains : TRUE]

LoginSymmetry ==
    Permutations(Logins) \cup Permutations(Sessions) \cup Permutations(Passwords)
    \cup Permutations(Secrets) \cup Permutations(Codes)

(* The user has a password account, or none.                               *)
Init ==
    /\ now = 0
    /\ \/ users = [u \in Users |-> None]
       \/ \E hash \in Passwords :
             users = [u \in Users |-> create_password_user([v \in Users |-> None], u, hash, "user")[u]]
    /\ sessions = [s \in Sessions |-> None]
    /\ session_cache = [s \in Sessions |-> None]
    /\ allowed_domains = [d \in Domains |-> None]
    /\ LoginInit

Spec == Init /\ [][LoginNext]_<<now, users, sessions, session_cache, allowed_domains, loginvars>>
=============================================================================
