\* All documents of up to six lines.
CONSTANT MaxLines = 6
SPECIFICATION Spec
INVARIANTS TypeOK LinesAreInPlace OneElementPerRun WellNested TitleIsTheFirst
