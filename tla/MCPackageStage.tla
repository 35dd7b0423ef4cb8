---------------------------- MODULE MCPackageStage ----------------------------
EXTENDS PackageStage
\* A directory, a file in it of two chunks, and the manifest.
MCEntry(path, parent, dir, size) == [path |-> path, parent |-> parent, dir |-> dir, size |-> size]
MCArchive ==
  <<MCEntry("lib", "", TRUE, 0), MCEntry("lib/a", "lib", FALSE, 2), MCEntry("package.json", "", FALSE, 1)>>
\* The archive, a well-formed lie, and claims the parent has to refuse: without a manifest,
\* a path twice, a file past its limit, no entry at all.
MCClaims ==
  {MCArchive,
   <<MCEntry("package.json", "", FALSE, 1)>>,
   <<MCEntry("lib", "", TRUE, 0)>>,
   <<MCEntry("package.json", "", FALSE, 1), MCEntry("package.json", "", FALSE, 1)>>,
   <<MCEntry("package.json", "", FALSE, 3)>>,
   <<>>}
================================================================================
