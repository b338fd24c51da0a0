------------------------------ MODULE AddFriend ------------------------------
(***************************************************************************)
(* Two people who sit together add each other.  Each window asks the daemon *)
(* for its own story, its user types the other's into a form, and both      *)
(* compare an animation computed from the two stories before they finish.   *)
(***************************************************************************)
EXTENDS Naturals, FiniteSets

CONSTANT Sentences   \* of a story

ASSUME AddFriendAssumption == Sentences \in Nat \ {0, 1}

User == {1, 2}
Other(u) == 3 - u

VARIABLES
  loaded,      \* whether u's own story has come from the daemon
  theirstory,  \* the form, a line for each sentence of u's own story
  showverify,
  progress,    \* the screen: 0 stories, 1 animation, 2 name, 3 closed
  hashing,     \* seeds whose digest is under way
  shownSeed,   \* the seed whose animation moves
  identical,   \* u has seen that the animations are identical
  added        \* the story that the daemon took from u, or <<>>

form == <<loaded, theirstory, showverify>>
animation == <<hashing, shownSeed>>
addFriendVars == <<form, progress, animation, identical, added>>

\* A line is left blank, as the other told it, or something else.
Blank == <<0, 0>>
Else == <<0, 1>>
Told(u, i) == <<u, i>>
Line(u) == {Blank, Else} \cup {Told(Other(u), i) : i \in 1..Sentences}
Story(u) == [i \in 1..Sentences |-> Told(u, i)]

\* A story that has not come is the empty text, which splits into one line.
Lines(has) == 1..(IF has THEN Sentences ELSE 1)
Blanks(has) == [i \in Lines(has) |-> Blank]
storyOf(u) == IF loaded[u] THEN Story(u) ELSE <<>>
join(lines) == IF lines = <<Blank>> THEN <<>> ELSE lines

IsSeed(s) == Cardinality(s) \in 1..2

\* Mutant: the stories are joined without sorting them.
Unsorted(mine, theirs) == {<<mine, theirs>>}

\* Sorted, so that both people get the same seed.
computeSeedFromStories(mine, theirs) == {mine, theirs}

seed(u) == computeSeedFromStories(storyOf(u), join(theirstory[u]))
NoSeed == {<<>>}

AddFriendTypeOK ==
  /\ loaded \in [User -> BOOLEAN] /\ showverify \in [User -> BOOLEAN]
  /\ \A u \in User : theirstory[u] \in [Lines(loaded[u]) -> Line(u)]
  /\ progress \in [User -> 0..3]
  /\ \A u \in User : /\ progress[u] # 1 => hashing[u] = {} /\ ~identical[u]
                     /\ IsSeed(shownSeed[u]) /\ \A s \in hashing[u] : IsSeed(s)
                     /\ progress[u] = 3 <=> added[u] # <<>>

AddFriendInit ==
  /\ loaded = [u \in User |-> FALSE] /\ showverify = [u \in User |-> FALSE]
  /\ theirstory = [u \in User |-> Blanks(FALSE)]
  /\ progress = [u \in User |-> 0]
  /\ hashing = [u \in User |-> {}] /\ shownSeed = [u \in User |-> NoSeed]
  /\ identical = [u \in User |-> FALSE] /\ added = [u \in User |-> <<>>]

allComplete(lines) == \A i \in DOMAIN lines : lines[i] # Blank

\* Mutant: the form keeps the lines it has.
StoryComesLate(u) ==
  /\ progress[u] # 3 /\ ~loaded[u]
  /\ loaded' = [loaded EXCEPT ![u] = TRUE]
  /\ UNCHANGED <<theirstory, showverify, progress, animation, identical, added>>

\* The daemon's answer: the form is new, whichever screen is shown by then, and the
\* button Verify stays as it is.
StoryComes(u) ==
  /\ progress[u] # 3 /\ ~loaded[u]
  /\ loaded' = [loaded EXCEPT ![u] = TRUE]
  /\ theirstory' = [theirstory EXCEPT ![u] = Blanks(TRUE)]
  /\ hashing' = IF progress[u] = 1
                THEN [hashing EXCEPT ![u] =
                        @ \cup {computeSeedFromStories(Story(u), Blanks(TRUE))}]
                ELSE hashing
  /\ UNCHANGED <<showverify, progress, shownSeed, identical, added>>

\* The other has told what he reads on his own screen.
SetTheirStory(u, i, line) ==
  /\ line = Told(Other(u), i) => loaded[Other(u)]
  /\ theirstory' = [theirstory EXCEPT ![u][i] = line]
  /\ showverify' = [showverify EXCEPT ![u] = @ \/ allComplete(theirstory'[u])]
  /\ UNCHANGED <<loaded, progress, animation, identical, added>>

\* Mutant: the form stays under the screens that come after it.
TypeAnywhere(u, i, line) ==
  /\ progress[u] # 3 /\ i \in DOMAIN theirstory[u]
  /\ SetTheirStory(u, i, line)

TypeLine(u, i, line) ==
  /\ progress[u] = 0 /\ i \in DOMAIN theirstory[u]
  /\ SetTheirStory(u, i, line)

\* A new animation, of nothing until the digest of its seed is there.
Animate(u) ==
  /\ progress' = [progress EXCEPT ![u] = 1]
  /\ shownSeed' = [shownSeed EXCEPT ![u] = NoSeed] /\ hashing' = [hashing EXCEPT ![u] = {seed(u)}]

\* Once the form was complete the button works, whatever is in the form now.
Verify(u) ==
  /\ progress[u] = 0 /\ showverify[u] /\ Animate(u)
  /\ UNCHANGED <<form, identical, added>>

\* Digests of two seeds may come in either order.
Hashed(u) ==
  /\ \E s \in hashing[u] : /\ shownSeed' = [shownSeed EXCEPT ![u] = s]
                           /\ hashing' = [hashing EXCEPT ![u] = @ \ {s}]
  /\ UNCHANGED <<form, progress, identical, added>>

\* The two people look at both screens, for longer than a digest takes.
Compare ==
  /\ \A u \in User : progress[u] = 1 /\ hashing[u] = {}
  /\ shownSeed[1] = shownSeed[2]
  /\ identical' = [u \in User |-> TRUE]
  /\ UNCHANGED <<form, progress, animation, added>>

\* Another screen takes the animation's place; what is still under way is ignored.
Leave(u, screen) ==
  /\ progress' = [progress EXCEPT ![u] = screen]
  /\ hashing' = [hashing EXCEPT ![u] = {}] /\ shownSeed' = [shownSeed EXCEPT ![u] = NoSeed]
  /\ identical' = [identical EXCEPT ![u] = FALSE]
  /\ UNCHANGED <<form, added>>

YesTheyAreIdentical(u) == progress[u] = 1 /\ identical[u] /\ Leave(u, 2)
NoTakeMeBack(u) == progress[u] = 1 /\ Leave(u, 0)

GoBack(u) ==
  /\ progress[u] = 2 /\ Animate(u)
  /\ UNCHANGED <<form, identical, added>>

\* The daemon refuses what is not a story; what its checksum finds besides is left out.
from_story(text) == DOMAIN text = 1..Sentences /\ allComplete(text)

finish(u) ==
  /\ progress[u] = 2
  /\ from_story(join(theirstory[u]))
  /\ added' = [added EXCEPT ![u] = join(theirstory[u])]
  /\ progress' = [progress EXCEPT ![u] = 3]
  /\ UNCHANGED <<form, animation, identical>>

AddFriendNext ==
  \/ \E u \in User :
       \/ StoryComes(u)
       \/ \E i \in 1..Sentences : \E line \in {Blank, Else, Told(Other(u), i)} :
            TypeLine(u, i, line)
       \/ Verify(u) \/ Hashed(u) \/ YesTheyAreIdentical(u) \/ NoTakeMeBack(u)
       \/ GoBack(u) \/ finish(u)
  \/ Compare

AddFriendSpec == AddFriendInit /\ [][AddFriendNext]_addFriendVars

-----------------------------------------------------------------------------

\* Whoever is added is the other person, though Verify is never disabled again and a
\* story, or a digest, may come when the screen that uses it is gone.
AddedIsTheOther == \A u \in User : added[u] # <<>> => added[u] = Story(Other(u))

\* When both have typed what they were told they see the same animation
\* (computeSeedFromStories: "the same for both people").
RightStoriesAgree ==
  (\A u \in User : /\ loaded[u] /\ theirstory[u] = Story(Other(u))
                   /\ progress[u] = 1 /\ hashing[u] = {}) => shownSeed[1] = shownSeed[2]

\* Two people who sit together can rely on what the dialog shows and does.
PeopleMeet == AddedIsTheOther /\ RightStoriesAgree

=============================================================================
