CONSTANTS
  Demos <- MCDemos
  DefaultIndex = 2
  Texts <- MCTexts
  Files <- MCFiles
  Contents <- MCContents
  Readable <- MCReadable
  NoFile = NoFile
  Result <- MCResult
  MaxInputs = 5
SPECIFICATION Spec
INVARIANTS TypeOK PageIsApp InputEmpty
PROPERTIES ImplementsEditor AnswersEditor
