--------------------------- MODULE Administration ---------------------------
(***************************************************************************)
(* What administrators and employees keep besides the records of work:     *)
(* files and documents, the organization's structure and its employees,    *)
(* branches, shifts, leave types, holidays, and the catalogue of skills;   *)
(* and who approves what.                                                  *)
(***************************************************************************)
EXTENDS DocumentCentre, OrgStructure, OrganizationCalendars, SkillCatalog, ApprovalRouting

documentVars == <<fileVars, centreVars>>
yearVars == <<settingsVars, calendarVars>>
vars == <<portalVars, documentVars, structureVars, yearVars, catalogVars, routingVars>>

Init == /\ PortalInit
        /\ FilesInit /\ CentreInit
        /\ StructureInit
        /\ SettingsInit /\ CalendarInit
        /\ CatalogInit
        /\ RoutingInit

(* A history asks for one part; the other parts have no step in it.        *)
AsksFor(kinds) == scenario \cap kinds # {}
ForDocuments == AsksFor({"upload", "policies", "form16", "zip"})
ForStructure == AsksFor({"hire", "structure"})
ForYear      == AsksFor({"shifts", "leave types", "branches", "calendar"})
ForCatalog   == AsksFor({"tree", "catalogue", "defaults"})
ForRouting   == AsksFor({"approvals"})

DocumentsStep(r) == \/ FilesStep(r) /\ UNCHANGED centreVars
                    \/ CentreStep(r)
YearStep(r) == \/ SettingsStep(r) /\ UNCHANGED calendarVars
               \/ CalendarStep(r)

Handle(r) ==
    \/ /\ ForDocuments /\ DocumentsStep(r)
       /\ UNCHANGED <<structureVars, yearVars, catalogVars, routingVars>>
    \/ /\ ForStructure /\ StructureStep(r)
       /\ UNCHANGED <<documentVars, yearVars, catalogVars, routingVars>>
    \/ /\ ForYear /\ YearStep(r)
       /\ UNCHANGED <<documentVars, structureVars, catalogVars, routingVars>>
    \/ /\ ForCatalog /\ CatalogStep(r)
       /\ UNCHANGED <<documentVars, structureVars, yearVars, routingVars>>
    \/ /\ ForRouting /\ RoutingStep(r)
       /\ UNCHANGED <<documentVars, structureVars, yearVars, catalogVars>>

Outside ==
    \/ /\ \E module \in UploadModules, category \in Categories : uploadFile(module, category)
       /\ UNCHANGED <<centreVars, structureVars, yearVars, catalogVars, routingVars>>
    \/ /\ \E l \in LeaveTypes : requestLeave(l)
       /\ UNCHANGED <<documentVars, structureVars, calendarVars, catalogVars, routingVars>>
    \/ ForRouting /\ StaffStep /\ UNCHANGED <<documentVars, structureVars, yearVars, catalogVars>>

Next == Outside \/ \E r \in Requests : Handle(r)

Spec == Init /\ [][Next]_vars
=============================================================================
