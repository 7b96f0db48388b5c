------------------------------ MODULE MCStorage ------------------------------
(* What is kept on disk: the files of the users and the cached directories *)
(* share no state, a behaviour looks at one of them.                       *)
EXTENDS UserFile, DirectoryCache

CONSTANTS t1, t2, t3, P, Q, D, E, fa

VARIABLE focus

\* The second id is the last of its sub-table.
MCIds   == 0..2
MCItems == 1..3

MCParent == (P :> NoDir) @@ (Q :> NoDir) @@ (D :> P) @@ (E :> Q)

\* Three threads that want one directory.
Contend == (t1 :> {Job("upload", D, fa), Job("delete", D, fa)})
           @@ (t2 :> {Job("size", P, Self)})
           @@ (t3 :> {Job("open", D, Self), Job("rmdir", D, Self), Job("mkdir", D, Self)})
\* A directory is moved while another thread wants it.
MoveAway == (t1 :> {Job("upload", D, fa)})
            @@ (t2 :> {Job("open", P, Self), Job("mkdir", E, Self)})
            @@ (t3 :> {Job("move", D, E)})
\* A directory is made and removed while another thread fills it.
Remake == (t1 :> {Job("mkdir", E, Self), Job("rmdir", E, Self)})
          @@ (t2 :> {Job("upload", E, fa)})
          @@ (t3 :> {Job("open", Q, Self), Job("size", Q, Self)})
\* Two threads want a directory that is moved.
Crowd == (t1 :> {Job("open", D, Self)}) @@ (t2 :> {Job("open", D, Self)}) @@ (t3 :> {Job("move", D, E)})
MCPlans == {Contend, MoveAway, Remake, Crowd}
MCJobs == (t1 :> 2) @@ (t2 :> 1) @@ (t3 :> 1)

MCInit ==
    /\ focus \in {"users", "directories"}
    /\ Init /\ DirInit
    /\ focus = "users" => plan = Contend

MCNext ==
    /\ UNCHANGED focus
    /\ \/ focus = "users" /\ Next /\ UNCHANGED dirvars
       \/ focus = "directories" /\ DirNext /\ UNCHANGED vars

MCSpec == MCInit /\ [][MCNext]_<<vars, dirvars, focus>>

\* The administrators are alike, and so are the edits.
EditorSymmetry == Permutations(Threads) \cup Permutations(Edits)
=============================================================================
