# LectureBuddy: a TLA+ model of recording, saving and filing lectures

LectureBuddy is an iOS app (Swift, under `src/LectureBuddy/LectureBuddy`). It
transcribes a lecture while it is being held, highlights the sentences that hold
the student's keywords, and files the recordings under subjects in Firestore.
This directory holds TLA+ models of its stateful parts, TLC runs that check them
on small instances, and TLAPS proofs for all instances.

Abbreviations used below, with `src/LectureBuddy/LectureBuddy/` in front:

| | |
|---|---|
| SRM | `Recording Page/SpeechRecogitionManager.swift` |
| RVC | `Recording Page/RecordingViewController.swift` |
| PTV | `Popups/PopupTemplateViewController.swift` |
| SRP, ASP | `Popups/SaveRecordingPopupView.swift`, `Popups/AddSubjectPopupView.swift` |
| DM | `DataManager.swift` |
| HP, RT | `Home Page/HomePageViewController.swift`, `Home Page/RecordingsTableViewController.swift` |
| SET, SU | `Settings Page/SettingsViewController.swift`, `SignupViewController.swift` |
| KWP | `Popups/Keywords Popup/KeywordsPopupView.swift` |
| AWV | `Recording Page/Audio Wave Files/AudioWaveView.swift` |

and FLM, FAD for `FBSDKLoginManager.m` and `FBSDKApplicationDelegate.m` of
Facebook's SDK, with `src/LectureBuddy/Pods/FBSDKLoginKit/FBSDKLoginKit/FBSDKLoginKit/`
and `src/LectureBuddy/Pods/FBSDKCoreKit/FBSDKCoreKit/FBSDKCoreKit/` in front.

## The system

| Component | State it keeps | Operations | Correct when |
|---|---|---|---|
| Speech recognition manager (SRM) | timer, audio engine and tap, recognition task, filed and current text | start, stop, reset after 60 s, completion check, result | one restart ahead at a time; one tap; microphone never without its reset; texts neither lost, changed nor reordered; stop is final |
| Recording page (RVC, banner, wave view) | what is on the screen, banner, wave timer, text view | appear, stop, close, leave, delegate calls | banner, wave and text agree with the manager; what is saved is what is shown |
| Saving and deleting recordings (RVC, SRP, PTV, DM, HP, RT) | statics of the popup, calls in flight, list on the home page, reload flag | stop, save, close, delete, late answers, delayed dismissal | popup saves the page it covers; running recordings are not interrupted; the list catches up |
| Subjects (DM, HP, ASP, PTV, SET) | cached `subjects`, tabs and the index of the one shown, rows of the settings page's table, loads in flight, popup and alert | load, add, delete, reload, show a tab, touch a row of the settings, new recording | tabs catch up with Firestore; a recording is filed under the subject shown, and the subject deleted is the one on the row touched; no index out of range; loads complete; names are not reused |
| Keywords popup and user listener (KWP, DM 170-194, 277-290) | `highlightedKeywords`, the table's rows, snapshot listeners | add, delete, change from outside | the array is the user's; the row touched is the keyword deleted |
| Sign in and start-up (SU, DM 198-275) | Firebase user, user document, page on the screen | log in, create user, load, sign out | a document is not reset by a log-in (but by two devices' first log-ins at once); whoever is signed in gets to the home page, nobody else stays there |
| Facebook login (SU 43-60, FLM, `FBSDKLoginCompletion.m`, FAD) | a login manager per press, the application delegate's pending manager and sheet, challenge and token in the keychain | log in, leave, return, redirect, cancel, answer, terminate, launch, sign out | each press answered once and not forgotten; no late answer passes for the expected one; a sign-out lasts |
| Keyword highlighting (RVC 154-180, `RecordingTableViewCell.swift` 76-100) | the marked ranges | split, match, range | every sentence with a keyword is highlighted, and only those |
| Audio level and wave (SRM 72-81, AWV) | a float two threads share, the last two levels | update, limit, average | a steady volume is what the wave comes to show, within its limit |
| Following the speech (RVC 188-212, 315-319) | `isFollowingSpeech`, scroll position, follow button | scroll, follow | the newest words are shown while it follows, nothing moves while the student reads |
| List cells, gradients, colours, extensions, app delegate | none of interest | | |
| `Old Version Files`, the rest of `Pods` | not in the target, third party | | |

How they interact. The page owns a manager and is its delegate: the manager
calls it synchronously on the main queue. The home page presents recording
pages, popups and the settings; popups are presented over a page without
replacing it (`overCurrentContext`), so the page below does not "appear" again
when they go. `DataManager` is a singleton: its cached arrays are read by every
page at any time and replaced by whatever load ends. Pages tell the home page to
reload through the static flag `shouldReloadOnAppear`. The save popup gets its
text, subject and delegate through static fields. The sign-up page makes a new
Facebook login manager for every press; the SDK's application delegate, which
the app delegate forwards everything to, knows the manager that opened something
last and nothing of the others.

What makes it hard. All handlers run on the main queue, so each is atomic; but
timers, `asyncAfter` blocks, animation completions and Firestore answers come
between them, and nobody cancels them or checks that they still apply. The
hazards are listed with their lines in `PROJECT.json`. A Facebook login leaves
the app altogether, and may be answered after the app was terminated. Only the
audio tap runs on a thread of its own. The repository's tests
are empty templates.

## The modules

### `Notebook` and `SpeechRecognition`

`Notebook` is the abstract promise: the notes are a set of texts, one per
segment; the only step gives the newest segment a first or better hypothesis.

`SpeechRecognition` has one variable per field of SRM that controls it, and one
action per handler:

| Action | Code |
|---|---|
| `StartRecognition`, `StopRecognition` | SRM 46-54 with `endRecording` 140-148 |
| `ResetAndRestart`, `ResetAndWait` | timer fires, SRM 188-191, then the first completion check in the same call |
| `CheckAndRestart`, `CheckAgain` | the check a second later, SRM 161-185 |
| `ResultHandler` | SRM 124-137 |
| `TaskEnds`, `CancellationCompletes` | the Speech framework's task |

The parts of handlers that several share (`RecordAndRecognizeSpeech`,
`RestartRecognition`, `ScheduleCheck`, `Cancelled`) are operators. A text is
abstracted to the pair of its segment and a hypothesis number. `taps` counts
`installTap` calls without `removeTap`. `pendingChecks` counts scheduled checks,
`resetTimer` says that the one-shot timer is armed. The engine may fail to start
(SRM 94-97) and the recogniser may be missing or unavailable (SRM 100-109):
both are choices.

`NotesTaken` maps the manager's state to `Notebook`: the set of texts filed or
current. It is a set because a minute without any result files the same text
again.

### `RecordingPage`

EXTENDS the manager and conjoins to each of its actions what the delegate does
in the same call; adds the page's buttons, alert and popup. `DismissedAfterSave`
is the delayed dismissal (RVC 259-264), whose cause is in the next module.

### `SaveRecordingFlow`

Several recording pages, one after another, over one home page. `staticPage`
stands for the three static fields, which are always assigned together
(RVC 291-296). `saves`, `deletes` and `loads` are the calls in flight, in two
steps each where it matters: Firestore decides (`StoreSave`, `StoreDelete`,
`ReadLoad`) and later the completion runs. `closings` are popup animations and
the 0.5 s block after them. `DismissPage` is UIKit's `dismiss` from the page's
side: it takes away what the page presents, else the page, and does nothing for
a page that is gone. `HomeAppears` is HP 43-53.

### `SubjectLibrary`

Firestore's subjects and recordings, the cache, the tabs, the index of the tab
shown (`position`, Pageboy's `currentIndex`) and everything that replaces one of
them. The heart is `loadSubjectsAndRecordings` (DM 33-57): the
array is replaced when the subjects come, its objects are filled one query at a
time, and the completion builds the tabs from whatever array is in the cache by
then. A `Subject` object is known by its load, so that answers of an old load
fill old objects only (`Filled`). `saveNewSubject` is three calls in a row
(`SubjectChecked`, `SubjectSet`, `SubjectAdded`), the last of which replaces the
cache by subjects without recordings. `AlertFaded` is `dismissPopup`'s completion
meeting the popup's own alert.

Tabs and cache are two arrays. `Completed` rebuilds the tabs and goes back to the
index `reloadData` remembered; `ShowTab` and `PressNewRecording` use that index in
the cache of the moment (HP 155, 179): `trapped` says that it was out of range,
`recordings` keeps which subject a recording was filed under and which tab the
student saw.

The settings page's table is a third array. `rows` are the names it shows, and
touching a row (`PressSubject`, SET 47) or scrolling one into view (`ShowRow`, SET
110) indexes the cache of the moment with the row's number. The cache changes when
a load's subjects come (DM 125), the table only when the load after one of the page's
own deletes completes (SET 57): `tableDeletes` and `tableLoads` are those. A row that is
left over from a longer list therefore traps, and another one names another subject;
`touched` keeps what the row said.

`hurried` records where the student acted without waiting for an answer: in the
popup while it adds (`"popup"`), with the tabs while something replaces the subjects
(`"tabs"`), or on the settings page while something does, which includes opening it
then (`"settings"`).

### `UserSession`

Who is signed in, which page is on the screen, and the keywords. A log-in is a
record that goes through the calls of `signinToFirebase` (DM 259-275): sign in,
check for the document, create it, attach the listener (`SignInAnswered`,
`UserChecked`, `UserCreated`, `GetUserData`). The listener stays attached for
ever, and each of its snapshots does what the sign-in does at the end: segue to
the home page (SU 33-41) or load the subjects first (SU 71-75), which is why
`listeners` remember their `path`. `writes` is a queue per user, from which
`WriteAnswered` takes the oldest while that user is signed in. `Seen` is a document
as Firestore shows it to this device, with the writes under way; `Notify` and
`NewSnapshots` queue a snapshot, a path and a document, for each listener that
would see a difference, those of one change in any order. The keywords popup
(KWP) has its own `rows`, which change only with the table. `PressAndTrap` and
the branches that set `trapped` are the code's `!` on a nil uid or document and
a table whose row count does not match its array; nothing happens afterwards.
`loads` counts loads as single calls; their inside is `SubjectLibrary`'s.

Another device of the user edits the document (`OtherDeviceChanges`) or logs the
user in itself: `OtherDeviceChecks` finds no document (DM 214-216) and
`OtherDeviceCreates` writes one (DM 217-231), over the one this device may have made
since; `elsewhere` are the users between the two. Both may fall between this
device's own check and write. `raced` are the users for whom two devices were there
at once: each write then resets what the other device has made and edited, and
`LogInKeepsDocument` excepts these users and no others.

`hurried`, `errors` and `changes` record what the properties are conditioned on:
`hurried` becomes true when the student edits, logs in or signs out while
something set off earlier is not over. `followed` records that a listener was
attached since the last sign-in: before that the array is still the previous
user's, or nobody's, which is why `KeywordsAreTheUsers` has it as a condition.

### `FacebookLogin`

What FLM and FAD do for the app's one call of `logIn` (SU 47). `managers` has the
state and the handler of each press's manager; number 0 is a manager made at a
launch. `requests` are numbered, and a request's number is its challenge, of which
the keychain keeps the newest (`expectedChallenge`). An action per entry point:

| Action | Code |
|---|---|
| `PressFacebookLogIn` | SU 43-49, FLM `logInWithReadPermissions` down to `performBrowserLogIn` or the Facebook app |
| `OtherAppOpens`, `OpenFails` | the answer of UIKit's `openURL` |
| `EnterBackground`, `BecomeActive`, `Launch` | FAD's notifications of the app's life cycle |
| `Redirected`, `OpenedByOtherURL` | FAD `application:openURL:`, a redirect or another URL |
| `SessionEnds`, `LoseSession` | the sheet's completion handler, and a sheet that goes without it |
| `MeAnswered`, `ReauthAnswered` | `FBSDKLoginCompletion.m`'s question for the user's ID; FLM `validateReauthentication` |
| `FirebaseAnswers`, `SignOut` | DM 259-262 as seen from here; SET's sign-out |
| `Kill` | iOS terminates the app: keychain and open requests stay, the rest goes |

`OpenURL` is the manager's share of a redirect: a token with its user's ID, one
without, none, or the Facebook app's wish that the browser be used (`fallback`,
taken up by `BecomeActive`). `accepted`, `hurried`, `lost` and `signedOut` are
history the properties are conditioned on.

### `AudioLevel`

The tap's thread stores a volume (`UpdateVolume`, SRM 72-81), a repeating timer
reads it, keeps the last two levels and draws their average (`UpdateAudioWave`,
AWV). Resets take the tap away and put it back without telling the wave.

### `TranscriptView`

The algorithm of `getKeywordSentenceRanges` as operators on sequences of words
and stops: `Sentences` is `split`, `SentencesWithKeyword` the two loops,
`RangeOf` is `range(of:)` with the space in front of every sentence but the
first. Around it the page's text and scroll position: `SetTextViewText` (RVC
119-152), the drags and the follow button. Heights are counted in words. The
properties do not use `Sentences`: `InKeywordSentence` says which positions are
to be marked by the keyword and the stops around it. Words inside other words
("exam" in "exams") are left out, and so is a recording opened from the list,
which is shown once and never follows anything.

### Assumed of the environment

Nothing of UIKit, Speech, AVFoundation or Firestore is in the repository; the
models take from their use:

* a recognition task delivers no result once it is `.completed`, which is what
  the manager's polling relies on;
* the same request may be used by consecutive tasks, as the code does;
* answers of the same query come in the order of the calls, others in any order;
* an animation of 0.2 s ends before the block 0.5 s after its start;
* a view at alpha 0 takes no touches, but a controller that is presented covers
  the one below it;
* Firestore keeps a write until it can answer it, takes a user's writes in order
  and only while that user is signed in, shows the device its own writes at once,
  and ends a listener at an error;
* Facebook calls its handler after its dialog has gone and the page below has
  appeared again;
* a page that presents something cannot present another;
* `setViewControllers` without animation ends in the call; while a finger is on
  the pages Pageboy refuses to scroll, and the first page stays;
* iOS is 11 or newer, so that a browser login is a sheet of
  `SFAuthenticationSession` or Safari itself; which of Facebook app, browser and
  sheet is used depends on what is installed and configured and is a choice; a
  press needs the page, so no second sheet comes up over the first;
* redirects come from requests the app has sent;
* the store of the shared float is one instruction; the engine delivers no empty
  buffer;
* a scroll view whose content fits cannot be dragged; one whose content shrinks
  under it is brought back to its end, and one with a negative offset may be.

`repeatedRecognitionCancelledCheckCounter` is left out: it only feeds a log line
and a parameter nobody reads.

## Runs and bounds

| Run | Configuration | Shows |
|---|---|---|
| `page` | manager and page, 3 restarts, 2 hypotheses, fair | of the manager: `OneRestartAhead`, `SingleTap`, `MicrophoneHasDeadline`, `SegmentsInOrder`, `ReplacesOnlyCompletedTask`, `StopOutsideResetIsFinal`, `ResetCompletes`, and that it implements `Notebook` (`NotebookSpec`); of the page: `IndicatorsFollowManager`, `PageShowsNotes`, `SaveTakesShownNotes`, `LeavingIsQuiet` |
| `manager_stop_undone` | the manager alone, 2 restarts, 1 hypothesis | *violated*: `StoppedStaysOff` |
| `save` | 2 pages, 2 popups, 2 saves, errors, fair | `StaticsMatchPopup`, `RecordingNotInterrupted`, `StaleListIsNoticed`, `PressedPopupCloses` |
| `save_other_page` | 2 pages, 2 popups, 2 saves, no errors | *violated*: `UnsavedOnlyAfterWarning` |
| `save_failed` | 1 page, 1 popup, 1 save, errors | *violated*: `UnsavedOnlyAfterWarning` |
| `library` | 1 subject and a free name, 1 popup, 1 add, 1 delete, 1 recording, 2 mishaps, fair | `StaleTabsNoticed`, `RightSubjectWhenPatient`, `HomeLoadsEnd` |
| `library_names` | no subjects, 3 names, 2 adds, 1 popup, 1 mishap | *violated*: `NamesNotReused` |
| `session` | 2 users, one with a document, 1 word; 2 log-ins, 2 edits, 2 steps of another device and 1 error, 3 of them in all, fair | `KeywordsAreTheUsers`, `RowsShowKeywords`, `NoTrapWhenPatient`, `HomeHasUser`, `LogInKeepsDocument`, `SignedInReachesHome` |
| `facebook` | 2 users, 3 presses, 3 requests, 1 termination | `AnsweredOnce`, `AcceptedInOrder`, `NotForgotten`, `SignedOutStaysOut` |
| `audio` | volumes silent, faint, at, just below and above the limit, fair | `SteadyVolumeShown` |
| `transcript` | 3 words (two spellings of one), 5 words and stops, window of 2 | `HighlightsOnlyKeywordSentences`, `FirstSentencesHighlighted`, `FollowingShowsNewest`, `ReadingNotInterrupted` |
| `highlight_repeated` | the same | *violated*: `HighlightsEveryKeywordSentence` |

Each passing run but `audio` also checks its module's type invariant.

Why these bounds. A restart depends on the one before it only, so three restarts
give a first, a middle and a last one, and the fourth segment is cut by the bound;
two hypotheses let a text be revised. Two pages are what a late answer needs to
hit the wrong one; either may record or view a saved recording; two popups and
two saves give the double press and the popup of another page. For the subjects,
one delete and one add are the two operations that replace the cache under a
load. `MaxMishaps` bounds errors and hurried places together: two let a student who is
impatient in one place be so in another, or meet an error, and leave the other half of
each property exercised. The one subject is deleted under the settings page's row for
the trap, the one that is added replaces it there for the wrong name. One log-in is a second
session for an app that starts with somebody signed in, so that one user's
listener meets the other user; two may overlap, for the same user or for another;
two edits queue two writes; one edit on this device and one on another make the
stale snapshot and the stale table; two steps of another device are its first log-in and
an edit of the document it has made, both inside this device's own first log-in. `MaxEvents` lets any three of all these meet
(log-in, edit and error, say), and one word is enough, since arrays of different
lengths differ. Three presses are one that is answered
late, one that is expected, and one after a sign-out; the three requests may also
be one press's Facebook app, its fallback to the browser and the next press; the
students are interchangeable (`SYMMETRY`, no liveness is checked there). Two
volumes would do for an average of two; five lie on both sides of both limits.
Five words and stops hold three sentences of one word, or a sentence that is the
end of another. The bounds are in the guards under the names `MaxRestarts`,
`MaxWords`, `MaxPages`, `MaxPopups`, `MaxSaves`, `MaxAdds`, `MaxDeletes`,
`MaxRecordings`, `MaxMishaps`, `MaxLogIns`, `MaxEdits`, `MaxChanges`,
`MaxErrors`, `MaxEvents`, `MaxPresses`, `MaxRequests`, `MaxKills` and `MaxText`. `MayFail`
switches Firestore's errors on in `SaveRecordingFlow`.

Deadlock is checked in `manager_stop_undone`, `transcript`, `highlight_repeated`,
`facebook` and `audio`: a manager may always be stopped again, a page scrolled, an
app left and returned to, a timer fire. The other runs say `CHECK_DEADLOCK FALSE`:
a left page or a trapped app has nothing to do, the bounds end the student's
steps, and an impatient student can really get stuck (see below).

Fairness. Timers fire, main-queue blocks run, animations end, cancelled tasks
complete, Firestore answers, the wave's timer repeats: weak fairness on each. The
sign-up page appears. Nothing is assumed of the student, of another device, of
Facebook, nor of a running recognition task. `ResetCompletes` requires a task to
wait for, because without one the code polls for ever.

Each property has a mutant: an operator in the module, just before the
definition it changes, with a bug of the kind one makes in that code. The comment
in front of it says what is wrong. `PROJECT.json` pairs them.

## What the code does not keep

* A stop during a reset does not last: the scheduled check turns the microphone
  on again after the recording was saved or left (SRM 181, `StoppedStaysOff`).
* A save that fails counts as a success, and the recording is lost (DM 66-69);
  a late answer to one page's save dismisses another page, unsaved (SRP 56);
  both `UnsavedOnlyAfterWarning`.
* Two presses on Add write the same subject twice, the second replacing the
  first (DM 100-109, `NamesNotReused`).
* A sentence with a keyword that was said before, or as the end of a longer one,
  is not highlighted (RVC 174, `HighlightsEveryKeywordSentence`).

Met while modelling, without a line that promises otherwise: the leave alert
denies a recording that is being saved or is saved (RVC 271); the alert of a
refused Add that meets the popup's dismissal leaves an invisible popup in front
of the app (ASP 39, PTV 133-142); deleting a subject whose recordings are not
loaded leaves them behind (DM 158); a failed load leaves the indicator spinning
(DM 82, 122); the completion check polls for ever without a task (SRM 162); a
snapshot of an earlier edit, or an edit on another device, changes the keywords
under the popup's table, and the next press on it deletes another keyword or
traps (KWP 95); a drag without deceleration stops the following without offering
the button (RVC 210); a subject swiped to while a load replaces the cache shows
another subject's recordings or traps (HP 155, the reason for the condition of
`RightSubjectWhenPatient`). The settings page: once one of two subjects
is deleted and the cache replaced, the old last row is beyond the array, and the one
above it may ask about deleting its neighbour, until the table is reloaded when the
recordings are loaded too (SET 47, 57, 110; DM 125: the reason for the second
condition of `RightSubjectWhenPatient`). Two devices that log the same user in for the
first time at once: each `setData` resets the document that the other has made, with
the edits made in it since (DM 214-217, the exception of `LogInKeepsDocument`). Of the
login: any answer with a token clears the
expected challenge, matching or not, so that a late one makes the newer press's
answer a mismatch (FLM 233); a screen lock takes the sheet away and nobody calls
the press's handler (FLM 164); a press made while an older one's token is being
compared may have its token replaced by the older one (FLM 482). They are in the
hazards, those that no property covers with a note, or in the condition `hurried`
or `lost` of a property.

## Proofs

Eight modules of theorems, each beside the module it extends. The constants are
assumed to be what the modules' `ASSUME`s say (`BoundsAssumption`,
`FlowAssumption`, `LibraryAssumption`, `SessionAssumption`, `FacebookAssumption`,
`TranscriptAssumption`, `VolumesAssumption`): bounds are naturals, of any size, and the sets of users,
names, words and keywords are any sets. TLC evaluates the same assumptions in the runs.

*The manager* (`SpeechRecognitionProofs`). None of `OneRestartAhead`, `SingleTap`,
`MicrophoneHasDeadline` is inductive: a restart by the timer installs a tap, and
only the fact that a restart is never ahead twice, and that audio is on only
while the timer is armed, shows that no tap is there. `SafetyInv` says that:
timer and check exclude each other, a tap or a running engine implies the timer
(`AudioUnderTimer`), everything is untouched before the start, and there is at
most one task per filed segment (`OneSegmentPerTask`, for the types).
`SafetyInvariance` proves it, one lemma per group of actions; the named
properties follow.

*The text.* Overwriting `currentBestTranscription` loses nothing because the text
it held is either that of the task that delivers now, or filed already.
`TextInv` adds to `SafetyInv`: filed texts are in order and not newer than the
current one, an unfinished task has no filed text, and a current text of an older
task is filed. From it follow `SegmentsInOrder` and `ImplementsNotebook`: a
result maps to `Revise`, everything else to a stutter, since filing adds a text
that is already in the set. `ReplacesOnlyCompletedTask` and
`StopOutsideResetIsFinal` are step properties under `SafetyInv`.

*The page* (`RecordingPageProofs`). Each step of the page is a step of the manager
or leaves it alone (`PageStepIsManagerStep`), hence `PageUsesManager ==
PageSpec => Spec`, and everything above holds under the page, `Notebook` included.
On top, the banner and the wave are inductive together with `SafetyInv`, which
gives `IndicatorsFollowManager`; `PageShowsNotes` holds because a result replaces
the text shown and filing does not change the notes; the two step properties
follow.

*Saving* (`SaveRecordingFlowProofs`). `PagesInv`: pages are numbered as they open,
so the statics, dismissals and deletes that an old page has left behind name a page
that is gone, stopped or a saved one. That is `StaticsMatchPopup` made inductive,
and `RecordingNotInterrupted` is a step property under it. `TypeInv` is the type
invariant in two parts, Booleans (`Flags`) and values (`Values`), since no backend
mixes the two. `ListInv` is the argument for `StaleListIsNoticed`: what the home
page will show when the last load that has read is in (`WillShow`) differs from
Firestore only in documents that are `Noticed`, that is, whose save or delete still
has an answer to come, unless a reload is flagged or yet to read.

*Documents and keywords* (`UserSessionProofs`). `LogInKeepsDocument` rests on two
calls that do not exclude each other. `CreateInv` says why it holds nevertheless:
the log-ins that wait for the write of a new document are of users who have none,
unless two devices were at it at once (`raced`), and no two on this device are of the
same user. Another device's write makes its user `raced` if this device is about to
make the document or has made it, which are the cases the property excepts.

`KeywordsAreTheUsers` speaks of the moments when all snapshots have come; the
inductive `FollowInv` of all others: the latest listener is of whoever is signed
in, and the last snapshot on its way is what the device sees. Every step that
changes what it sees, an edit or a refused write, queues a snapshot for that
listener (`NewSnapshotsProperties`), an accepted write changes nothing
(`AcceptedWriteIsSeen`), and other users' listeners have nothing new to tell,
because only the signed-in user's document looks different (`FollowOwnDocument`).

`NoTrapWhenPatient`, `HomeHasUser` and `RowsShowKeywords` follow from one
invariant of a session in which the student waits and nothing fails
(`PatientInv`): signing in goes through stages, from `Launching` or `SignedOut`
over `LoadingAtStart` or `LoggingIn`, `Reading` and `LoadingAfterLogIn` to
`AtHome`, and each but the last has exactly one thing under way. The listeners that
earlier sessions left behind stay quiet meanwhile: their users have a document
(`ListenedExist`), so that the one a log-in creates is not theirs, and nothing is
written. At home the snapshots on their way, of however many listeners, all carry
the keywords that the array has already.

*Subjects* (`SubjectLibraryProofs`). `TypeInv` are the types, with two facts that a
step needs: the alert has an object to delete, an open recording page was filed.
`StaleTabsNoticed` is about who waits in the popup (`Waits`), for whom one add at a
time is under way, below its popup (`AddInv`, `FadeInv`). `WaitsInv` then says why
no change goes unnoticed. A reload is ahead (`ReloadAhead`) when the flag is set,
the popup is up or a load of the home page has no subjects yet; everything that
changes the cloud puts one ahead (`CloudAhead`), and only the subjects that the
home page's own load brings end it (`KeepReloadAhead`). The settings page's load is
no exception, because a load of the home page is sent after it
(`SettingsAhead`). With none ahead the cache has the cloud's names
(`CacheNamed`), and what it lacks of the recordings a load of the home page still
waits for, by the load its objects are of (`Filling`). So when the last such load
completes, cache, cloud and tabs agree (`FreshFromCache`). `RightSubjectWhenPatient`
adds one invariant, that deletes and the flag belong to the settings page
(`DeletesAway`): on the home page with nothing under way, tab and cache are then
indexed alike (`TabsAreTheSubjects`). On the settings page, for who waits there too, it
is `TableInv`: while the table is on the screen (`AtTable`), everything under way will
reload it, and with nothing under way its rows are the names in the cache
(`TableFresh`), so that a row touched is a subject, and that one.

`LoadsAreServed` is the safety half of `HomeLoadsEnd`: each load that is not over
has a query under way that is the next of its kind to be answered. It needs the
first of the queries that wait for subjects, hence least numbers.

*Facebook* (`FacebookLoginProofs`), every safety property of the run, in four
steps.

* `AnsweredOnce`: a manager that still has a handler has not called it (`HInv`).
  `AcceptedByOwnManager`: the expected challenge is that of the newest request, if
  any, and the pending manager is the one that sent it, so that a token whose
  challenge matches is taken by its own manager (`RequestsInv`, `AnswersInv`).
* `AcceptedInOrder`. For a student who waits (`~hurried`), one thing at a time is
  under way (`OneThingAtATime`: something UIKit opens, calls, or the wish for the
  browser), and one token at a time (`OneTokenAtATime`): while a token is compared
  or signed in with no challenge is expected, and one that is expected is newer
  than whatever was accepted. Both need that a return to the app is noticed
  (`ReturnsAreNoticed`), since an expected return keeps what is pending.
* `SignedOutStaysOut`: Firebase's answer ends the only login there is, and once
  nothing is expected, pending or compared (`Quiet`) a late answer is refused,
  until the next press; unless a manager made at a launch has sent a request,
  which is the exception the property names.
* `NotForgotten`: handlers are only ever called (`NextOnlyCalls`), nobody else's
  request can be answered while the newest press waits (`NewestWaits`), and while
  it has its handler, and its sheet and manager were not taken away, something is
  going to call it (`Answering`): its URL is being opened, its sheet is up, the
  return to the app will be noticed, or its answer is looked into.

*The transcript* (`TranscriptViewProofs`). `ScrollInv` relates offset, text and
window; with it the page stays put while the student reads and shows the end while
it follows. `MarkedInv`: the marks are the ranges of the text shown. From it, the
two highlighting properties for every text: a range found by `range(of:)` is some
occurrence of the sentence's words (`RangeOfProperties`), an occurrence of a
keyword lies between stops (`KeywordAtRange`, `KeywordInSentence`), and the first
occurrence exists because a set of naturals that is not empty has a least element
(`LeastNatural`, by the well-foundedness of the intervals that end in one:
the induction theorems of the library cannot be instantiated with the installed
provers).

*The wave* (`AudioLevelProofs`). `WaveInv`: one or two limited levels, and what is
drawn lies between them, so that the wave stays in its view (`WaveWithinView`).
`UpdatedLevels` says what an update leaves of the list: the newest level last, the
one before first. Two updates therefore forget every other volume
(`SteadyUpdate`), which is `SteadyVolumeShown`.

*What the findings leave true.* Two properties that the code violates are theorems
once the causes that the findings name are excluded.
`UnsavedOnlyAfterWarningInPlace`: while no save fails and each is answered before
another page's recording is stopped (`AnsweredInPlace`), no recording goes away
unsaved except after the warning; `LeavesSaved` is the invariant, a page that is
being closed after its save has a document. `NamesNotReusedWhileWaiting`: while
the student waits in the popup and no call has failed (`Waits`), no step replaces
the document of a name; `NamesInv` says that the names are distinct, and that one
whose check has passed stays free until it is written.

### Liveness

Four of the five liveness properties are proved from the fairness of their
modules, for all constants, by steps that each handler's fairness drives, but from
one premise each: what fairness speaks of must be possible when it is needed. That
is a matter of ENABLED, which the provers cannot decide, or of counting what is
under way, which takes an induction they cannot do. The premises stand beside the
fairness they belong to, and TLC finds them true on the instances of the runs.

| Theorem | Premise | What the premise says | Checked with |
|---|---|---|---|
| `ResetCompletesHolds` | `[]HandlersEnabled` of `RecordingPage` | a cancelled task can complete, a check that finds it completed can run | `page`, 29,202 states |
| `SignedInReachesHomeHolds` | `[]HandlersEnabled` of `UserSession` | the handler of each answer that is awaited at sign-in can run | `session`, 982,893 states |
| `SteadyVolumeShownHolds` | `[]TimerEnabled` | the timer's update can run unless it would change nothing | `audio`, 421 states |
| `PressedPopupClosesHolds` | `AnswersCome` | the saves of a popup are all answered at some time, a fading ends | `save`, 141,076 states |

The first three are checked as an invariant, the last as a property of the fair
specification: add the name to the configuration of the run. The theorems are
about everything else that could go wrong: that an answer which comes has the
effect waited for, in whatever order it comes, and that no step undoes it.
`SignedInReachesHome` is the longest of them: the stages of `PatientInv` follow
each other whatever happens meanwhile (`ArrivingStep`, `StagesAdvance`), and the handler
each of them waits for ends it (`HandlersAdvance`).

### Only model-checked

`HomeLoadsEnd`: a load sends a query for each subject, and that they all end is an
induction over their number under a temporal formula; `LoadsAreServed` is what of
it is proved. And the premises of the table above. Every other property of a
passing run is a theorem.

## Not modelled

Layout, animation curves, keyboard handling, colours, dates and titles, the cells
of the lists: no state a property could be about.

Nearly all lines of the repository are vendored (BoringSSL, gRPC, LevelDB,
Protobuf, nanopb, Spring, most of Pageboy, Tabman and Facebook's SDK): they come
with CocoaPods, this app neither changes nor, mostly, calls them, and the
frameworks it does call, Firebase's authentication among them, are there as
binaries. What the app relies on directly, Facebook's login managers and
Pageboy's pages, is modelled from its source; everything else is environment, see
"Assumed of the environment". So the modelled lines are a small part of the
repository's and the greater part of the app's own stateful code.

`Old Version Files` is not compiled.

What could come next: composing `FacebookLogin` with `UserSession`, which now meet
in Firebase's sign-in only, and the inside of `UserSession`'s loads, which are
`SubjectLibrary`'s.
